---- MODULE Spec2Model ----
(***************************************************************************)
(* A model of pymks' frequency-space regression model                      *)
(* (MKSRegressionModel: fit / predict / coeff / resize_coeff) and of the   *)
(* kernel wrapper Filter (resize / _zero_pad_and_transform).               *)
(*                                                                         *)
(* Numbers.  numpy computes in the complex field; the model computes in    *)
(* the prime field Z_P (P = 61), which has a primitive n-th root of unity  *)
(* for every axis length n that divides P - 1 = 60 (1..6, 10, 12, ...).    *)
(* The discrete Fourier transform is the same sum in either field, so      *)
(* fftn / ifftn are computed, never assumed to be inverse to each other.   *)
(* A rational number p/q of the program is the field element p * q^-1.     *)
(* A spatial array stands for a real array (.real and real_if_close keep   *)
(* its values).  NaN is a value of its own that every operation spreads.   *)
(*                                                                         *)
(* Arrays are records [shape, val]: shape is the numpy shape (a sequence), *)
(* val maps each 0-based index tuple to a value.  Axis k of numpy is       *)
(* position k + 1 of the tuples.                                           *)
(***************************************************************************)
EXTENDS Integers, Sequences, FiniteSets, TLC

\* ------------------------------------------------------------------ bounds
\* Largest length of a spatial axis.
MaxLen == 3

\* ------------------------------------------------------------- arithmetic
\* The modulus of the field standing for numpy's complex numbers, and a
\* generator of its multiplicative group.
P == 61
Gen == 2

\* The floating-point not-a-number.
NaN == 0 - P

RECURSIVE PowMod(_, _)
PowMod(b, e) ==
    IF e = 0 THEN 1 ELSE (b * PowMod(b, e - 1)) % P

\* 1 / a for a # 0.
Inv(a) == PowMod(a, P - 2)

\* Axis lengths the field has a transform for.
FFTLengths == {n \in 1..(2 * MaxLen + 2) : (P - 1) % n = 0}

\* WTab[n][e] = w_n ^ e with w_n a primitive n-th root of unity; it stands
\* for exp(2 pi i e / n).
WTab ==
    [n \in FFTLengths |->
        [e \in 0..(n - 1) |-> PowMod(PowMod(Gen, (P - 1) \div n), e)]]

Add(a, b) == IF a = NaN \/ b = NaN THEN NaN ELSE (a + b) % P
Mul(a, b) == IF a = NaN \/ b = NaN THEN NaN ELSE (a * b) % P
Neg(a) == IF a = NaN THEN NaN ELSE (P - a) % P

RECURSIVE SumSeq(_)
SumSeq(s) ==
    IF s = <<>> THEN 0 ELSE Add(Head(s), SumSeq(Tail(s)))

RECURSIVE ProdSeq(_)
ProdSeq(s) ==
    IF s = <<>> THEN 1 ELSE Head(s) * ProdSeq(Tail(s))

\* ------------------------------------------------------------------ arrays
RECURSIVE Indices(_)
Indices(shape) ==
    IF shape = <<>> THEN {<<>>}
    ELSE {<<i>> \o r : i \in 0..(shape[1] - 1), r \in Indices(Tail(shape))}

\* No array: the value of a call that raised, and of an attribute not set.
None == [shape |-> <<0>>, val |-> <<>>]

\* np.zeros(shape)
zeros(shape) == [shape |-> shape, val |-> [i \in Indices(shape) |-> 0]]

\* shape[:-1] and shape[1:] of Python.
ButLast(s) == SubSeq(s, 1, Len(s) - 1)
ButFirst(s) == SubSeq(s, 2, Len(s))

\* The one-dimensional transform of array a along tuple position ax:
\* out[k] = sum_j a[j] * w^(-jk)       (np.fft.fft), or
\* out[j] = 1/n * sum_k a[k] * w^(jk)  (np.fft.ifft) when inverse.
fft1(a, ax, inverse) ==
    LET n == a.shape[ax]
        w == WTab[n]
        scale == IF inverse THEN Inv(n % P) ELSE 1
        term(idx, j) ==
            Mul(a.val[[idx EXCEPT ![ax] = j]],
                w[IF inverse THEN (j * idx[ax]) % n
                  ELSE (n * n - j * idx[ax]) % n])
    IN  [shape |-> a.shape,
         val |-> [idx \in Indices(a.shape) |->
                    Mul(scale, SumSeq([j1 \in 1..n |-> term(idx, j1 - 1)]))]]

\* np.fft.fftn(a, axes=axes): the transform along each listed numpy axis.
RECURSIVE fftn(_, _)
fftn(a, axes) ==
    IF axes = <<>> THEN a
    ELSE fftn(fft1(a, Head(axes) + 1, FALSE), Tail(axes))

\* np.fft.ifftn(a, axes=axes)
RECURSIVE ifftn(_, _)
ifftn(a, axes) ==
    IF axes = <<>> THEN a
    ELSE ifftn(fft1(a, Head(axes) + 1, TRUE), Tail(axes))

\* np.roll along one tuple position: the entry at index i moves to index
\* (i + amount) mod n.
shift1(a, ax, amount) ==
    LET n == a.shape[ax]
    IN  [shape |-> a.shape,
         val |-> [idx \in Indices(a.shape) |->
                    a.val[[idx EXCEPT ![ax] = (idx[ax] + n - amount) % n]]]]

\* np.fft.fftshift(a, axes=axes): each listed axis is rolled by n div 2.
RECURSIVE fftshift(_, _)
fftshift(a, axes) ==
    IF axes = <<>> THEN a
    ELSE fftshift(shift1(a, Head(axes) + 1, a.shape[Head(axes) + 1] \div 2),
                  Tail(axes))

\* np.fft.ifftshift(a, axes=axes): each listed axis is rolled by -(n div 2).
RECURSIVE ifftshift(_, _)
ifftshift(a, axes) ==
    IF axes = <<>> THEN a
    ELSE ifftshift(shift1(a, Head(axes) + 1,
                          a.shape[Head(axes) + 1]
                              - a.shape[Head(axes) + 1] \div 2),
                   Tail(axes))

\* C-order position of index tuple ijk in an array of the given shape
\* (the order np.ndindex visits).
RECURSIVE Rank(_, _)
Rank(ijk, shape) ==
    IF ijk = <<>> THEN 0
    ELSE Head(ijk) * ProdSeq(Tail(shape)) + Rank(Tail(ijk), Tail(shape))

\* The index tuple of the conjugate frequency: -ijk modulo the shape.
NegIndex(ijk, shape) ==
    [i \in 1..Len(ijk) |-> (shape[i] - ijk[i]) % shape[i]]

AllZero(ijk) == \A i \in 1..Len(ijk) : ijk[i] = 0

\* ------------------------------------------------------------------ errors
Ok == "ok"
ErrYShape == "RuntimeError: The shape of y is incorrect."
ErrXYShape == "RuntimeError: X and y must be the same shape."
ErrNotFit == "AttributeError: fit() method must be run before predict()."
ErrNoAttr ==
    "AttributeError: 'MKSRegressionModel' object has no attribute 'Fcoeff'"
ErrDim == "RuntimeError: Dimension of X are incorrect."
ErrLen == "RuntimeError: length of resize shape is incorrect."
ErrSmall == "RuntimeError: resize shape is too small."
ErrPad == "ValueError: pad_width cannot contain negative values."
ErrLstsq == "LinAlgError: SVD did not converge in Linear Least Squares"
ErrDims == "RuntimeError: Dimensions of X are incorrect."
ErrKeyword == "TypeError: _fftn() got an unexpected keyword argument 'threads'"
ErrBroadcast == "ValueError: operands could not be broadcast together"

\* The exception class of an error.
ErrKind(e) ==
    CASE e \in {ErrNotFit, ErrNoAttr} -> "AttributeError"
      [] e \in {ErrYShape, ErrXYShape, ErrDim, ErrLen, ErrSmall, ErrDims}
             -> "RuntimeError"
      [] e \in {ErrPad, ErrBroadcast} -> "ValueError"
      [] e = ErrKeyword -> "TypeError"
      [] e = ErrLstsq -> "LinAlgError"
      [] OTHER -> "none"

\* ------------------------------------------------------------------- basis
\* Number of local states of the basis (ContinuousIndicatorBasis(2, [0, 1])).
n_states == 2

\* A local-state value v of a microstructure stands for v / XScale in the
\* basis domain [0, 1].
XScale == 2

\* One entry of the continuous indicator discretization:
\* max(1 - |value - H[h]| / dX, 0) with H = linspace(0, 1, n_bins) and
\* dX = H[1] - H[0]; np.maximum spreads a NaN.
bin(v, h, n_bins) ==
    LET dX == XScale \div (n_bins - 1)
        d == IF v >= h * dX THEN v - h * dX ELSE h * dX - v
    IN  IF v = NaN THEN NaN
        ELSE IF dX - d > 0 THEN Mul((dX - d) % P, Inv(dX % P)) ELSE 0

\* basis.discretize(X): shape X.shape + (n_states,).
discretize(X) ==
    LET shape == X.shape \o <<n_states>>
    IN  [shape |-> shape,
         val |-> [idx \in Indices(shape) |->
                    bin(X.val[ButLast(idx)], idx[Len(idx)], n_states)]]

\* ------------------------------------------------------ MKSRegressionModel
\* self is [has, Fcoeff]: has says whether the attribute Fcoeff is set.
\* A method gives [self, err, ret]: the object after the call, the error
\* raised (Ok when none) and the value returned (None when none).

\* MKSRegressionModel(basis)
NewModel == [has |-> FALSE, Fcoeff |-> None]

Result(self, err, ret) == [self |-> self, err |-> err, ret |-> ret]

\* Axes that start at the sample axis: np.arange(len(X.shape) - 1).
_axes_from_zero(X) == [i \in 1..(Len(X.shape) - 1) |-> i - 1]

\* _axes(X) = np.arange(len(X.shape) - 1) + 1
_axes(X) == [i \in 1..(Len(X.shape) - 1) |-> i]

\* The axes of coeff and coeffToFcoeff:
\* np.arange(len(self._axes(self.Fcoeff) - 1))
coeff_axes(F) == [i \in 1..Len(_axes(F)) |-> i - 1]

_discrtizefft(X) == fftn(discretize(X), _axes(X))

\* np.linalg.lstsq(A, b)[0] for an S x k matrix A (k <= 2) and a vector b:
\* the least-squares solution of minimum norm, through the normal equations
\* (A^H A) x = A^H b.  Ah holds the complex conjugates of the entries of A.
\* With a NaN in A the SVD does not converge and lstsq raises.
lstsq(A, Ah, b, S, k) ==
    LET g(c1, c2) == SumSeq([s \in 1..S |-> Mul(Ah[s][c1], A[s][c2])])
        r(c) == SumSeq([s \in 1..S |-> Mul(Ah[s][c], b[s])])
        det == Add(Mul(g(1, 1), g(2, 2)), Neg(Mul(g(1, 2), g(2, 1))))
        tr == IF k = 1 THEN g(1, 1) ELSE Add(g(1, 1), g(2, 2))
        x == IF k = 0 THEN <<>>
             ELSE IF k = 2 /\ det # 0
             THEN <<Mul(Add(Mul(g(2, 2), r(1)), Neg(Mul(g(1, 2), r(2)))),
                        Inv(det)),
                    Mul(Add(Mul(g(1, 1), r(2)), Neg(Mul(g(2, 1), r(1)))),
                        Inv(det))>>
             ELSE IF tr # 0
             THEN [c \in 1..k |-> Mul(r(c), Inv(tr))]
             ELSE [c \in 1..k |-> 0]
    IN  IF \E s \in 1..S, c \in 1..k : A[s][c] = NaN
        THEN [raised |-> TRUE, x |-> <<>>]
        ELSE [raised |-> FALSE, x |-> x]

\* The number of states fit solves for at frequency index ijk: s1 is
\* slice(None) at the all-zero index and slice(-1) at every other one.
n_solved_everywhere(ijk) == n_states

n_solved(ijk) == IF AllZero(ijk) THEN n_states ELSE n_states - 1

\* The body of fit after its two shape checks: the transforms, the zero
\* array stored in self.Fcoeff and the loop over the frequencies.
fit_solve(self, X, y) ==
    LET FX == _discrtizefft(X)
        Fy == fftn(y, _axes(X))
        S == X.shape[1]
        sp == ButFirst(X.shape)
        k(ijk) == n_solved(ijk)
        sol == [ijk \in Indices(sp) |->
                  lstsq([s \in 1..S |-> [c \in 1..k(ijk) |->
                            FX.val[<<s - 1>> \o ijk \o <<c - 1>>]]],
                        [s \in 1..S |-> [c \in 1..k(ijk) |->
                            FX.val[<<s - 1>> \o NegIndex(ijk, sp)
                                             \o <<c - 1>>]]],
                        [s \in 1..S |-> Fy.val[<<s - 1>> \o ijk]],
                        S, k(ijk))]
        failed == {ijk \in Indices(sp) : sol[ijk].raised}
        \* the loop stops at the first index whose lstsq raises
        done(ijk) == \A f \in failed : Rank(ijk, sp) < Rank(f, sp)
        \* self.Fcoeff = np.zeros(...), then one slice per finished index
        Fcoeff ==
            [shape |-> ButFirst(FX.shape),
             val |-> [idx \in Indices(ButFirst(FX.shape)) |->
                LET ijk == ButLast(idx)
                    c == idx[Len(idx)] + 1
                IN  IF done(ijk) /\ c <= k(ijk) THEN sol[ijk].x[c] ELSE 0]]
    IN  Result([has |-> TRUE, Fcoeff |-> Fcoeff],
               IF failed = {} THEN Ok ELSE ErrLstsq, None)

\* A fit that stores the zero array before it checks the shapes.
fit_zeros_first(self, X, y) ==
    LET cleared == [has |-> TRUE,
                    Fcoeff |-> zeros(ButFirst(X.shape) \o <<n_states>>)]
    IN  IF ~(Len(y.shape) > 1) THEN Result(cleared, ErrYShape, None)
        ELSE IF y.shape # X.shape THEN Result(cleared, ErrXYShape, None)
        ELSE fit_solve(self, X, y)

\* fit(X, y)
fit(self, X, y) ==
    IF ~(Len(y.shape) > 1) THEN Result(self, ErrYShape, None)
    ELSE IF y.shape # X.shape THEN Result(self, ErrXYShape, None)
    ELSE fit_solve(self, X, y)

\* The coeff property on an object that has Fcoeff.
coeff_of(F) ==
    fftshift(ifftn(F, coeff_axes(F)), coeff_axes(F))

\* coeff (property)
coeff(self) ==
    IF ~self.has THEN Result(self, ErrNoAttr, None)
    ELSE Result(self, Ok, coeff_of(self.Fcoeff))

\* A coeffToFcoeff that undoes the centring with fftshift.
coeffToFcoeff_fftshift(self, c) ==
    fftn(fftshift(c, coeff_axes(self.Fcoeff)), coeff_axes(self.Fcoeff))

\* coeffToFcoeff(coeff); the axes come from self.Fcoeff
coeffToFcoeff(self, c) ==
    fftn(ifftshift(c, coeff_axes(self.Fcoeff)), coeff_axes(self.Fcoeff))

\* The response predict computes once its checks have passed:
\* ifftn(sum(FX * Fcoeff[None, ...], axis=-1)).real
predict_response(self, X) ==
    LET FX == _discrtizefft(X)
        Fy == [shape |-> X.shape,
               val |-> [idx \in Indices(X.shape) |->
                          SumSeq([c \in 1..n_states |->
                              Mul(FX.val[idx \o <<c - 1>>],
                                  self.Fcoeff.val[ButFirst(idx)
                                                  \o <<c - 1>>])])]]
    IN  ifftn(Fy, _axes(X))

\* A predict that multiplies the spectrum of the first sample into
\* self.Fcoeff in place.
predict_in_place(self, X) ==
    IF ~self.has THEN Result(self, ErrNotFit, None)
    ELSE IF ButFirst(X.shape) # ButLast(self.Fcoeff.shape)
    THEN Result(self, ErrDim, None)
    ELSE
    LET FX == _discrtizefft(X)
        F == self.Fcoeff
    IN  Result([has |-> TRUE,
                Fcoeff |-> [shape |-> F.shape,
                            val |-> [idx \in Indices(F.shape) |->
                                Mul(FX.val[<<0>> \o idx], F.val[idx])]]],
               Ok, predict_response(self, X))

\* A predict without the dimension check, which answers a mismatched input
\* with an array of its shape.
predict_no_check(self, X) ==
    IF ~self.has THEN Result(self, ErrNotFit, None)
    ELSE IF ButFirst(X.shape) # ButLast(self.Fcoeff.shape)
    THEN Result(self, Ok, zeros(X.shape))
    ELSE Result(self, Ok, predict_response(self, X))

\* predict(X)
predict(self, X) ==
    IF ~self.has THEN Result(self, ErrNotFit, None)
    ELSE IF ButFirst(X.shape) # ButLast(self.Fcoeff.shape)
    THEN Result(self, ErrDim, None)
    ELSE Result(self, Ok, predict_response(self, X))

\* Python's comparison a >= b of two tuples: the first differing entry
\* decides; with none, the longer tuple is the greater.
RECURSIVE TupleGE(_, _)
TupleGE(a, b) ==
    IF b = <<>> THEN TRUE
    ELSE IF a = <<>> THEN FALSE
    ELSE IF Head(a) # Head(b) THEN Head(a) > Head(b)
    ELSE TupleGE(Tail(a), Tail(b))

\* np.pad(a, pads, 'constant', constant_values=0): pads[i] = <<before,
\* after>> for axis i - 1.  A negative width raises ValueError.
PadRaises(pads) ==
    \E i \in 1..Len(pads) : pads[i][1] < 0 \/ pads[i][2] < 0

pad(a, pads) ==
    LET shape == [i \in 1..Len(a.shape) |->
                    a.shape[i] + pads[i][1] + pads[i][2]]
        inside(idx) == \A i \in 1..Len(idx) :
                          /\ idx[i] >= pads[i][1]
                          /\ idx[i] < pads[i][1] + a.shape[i]
    IN  [shape |-> shape,
         val |-> [idx \in Indices(shape) |->
                    IF inside(idx)
                    THEN a.val[[i \in 1..Len(idx) |-> idx[i] - pads[i][1]]]
                    ELSE 0]]

\* Pad widths with the two sides exchanged: (paddown, padup).
coeff_pads_swapped(padsize) ==
    [i \in 1..Len(padsize) |->
        LET paddown == padsize[i] \div 2
            padup == padsize[i] - paddown
        IN  <<paddown, padup>>]

\* The pad widths of resize_coeff: paddown = padsize / 2 (integer division
\* of Python 2), padup = padsize - paddown, and each axis is padded
\* (padup, paddown): padup before, paddown after.
coeff_pads(padsize) ==
    [i \in 1..Len(padsize) |->
        LET paddown == padsize[i] \div 2
            padup == padsize[i] - paddown
        IN  <<padup, paddown>>]

\* The padded coefficients of resize_coeff, in frequency space
\* (Fcoeff_pad), or the ValueError of np.pad.
Fcoeff_pad(self, shape) ==
    LET c == coeff_of(self.Fcoeff)
        shape2 == shape \o <<c.shape[Len(c.shape)]>>
        padsize == [i \in 1..Len(shape2) |-> shape2[i] - c.shape[i]]
        pads == coeff_pads(padsize)
    IN  IF PadRaises(pads) THEN [err |-> ErrPad, ret |-> None]
        ELSE [err |-> Ok, ret |-> coeffToFcoeff(self, pad(c, pads))]

\* A resize_coeff that computes the padded coefficients and does not store
\* them.
resize_coeff_not_stored(self, shape) ==
    IF ~self.has THEN Result(self, ErrNoAttr, None)
    ELSE IF Len(shape) # Len(self.Fcoeff.shape) - 1
    THEN Result(self, ErrLen, None)
    ELSE IF ~TupleGE(shape, ButLast(self.Fcoeff.shape))
    THEN Result(self, ErrSmall, None)
    ELSE Result(self, Fcoeff_pad(self, shape).err, None)

\* resize_coeff(shape)
resize_coeff(self, shape) ==
    IF ~self.has THEN Result(self, ErrNoAttr, None)
    ELSE IF Len(shape) # Len(self.Fcoeff.shape) - 1
    THEN Result(self, ErrLen, None)
    ELSE IF ~TupleGE(shape, ButLast(self.Fcoeff.shape))
    THEN Result(self, ErrSmall, None)
    ELSE
    LET padded == Fcoeff_pad(self, shape)
    IN  IF padded.err # Ok THEN Result(self, padded.err, None)
        ELSE Result([has |-> TRUE, Fcoeff |-> padded.ret], Ok, None)

\* ------------------------------------------------------------------ Filter
\* self is [Fkernel]: the kernel in frequency space, of shape
\* (n, spatial..., n_states).

\* basis._axes: the spatial axes 1 .. ndim - 2 of such an array.
basis_axes(a) == [i \in 1..(Len(a.shape) - 2) |-> i]

\* basis._fftn(X) and basis._ifftn(X)
_fftn(X) == fftn(X, basis_axes(X))
_ifftn(X) == ifftn(X, basis_axes(X))

\* The bases a filter is made with.  fft_kwargs says whether _fftn of the
\* basis takes the keywords threads and avoid_copy: _ImagFFTBasis._fftn(X)
\* takes none, the basis of the doctest of Correlation takes them.
ImagFFTBasis == [name |-> "_ImagFFTBasis", fft_kwargs |-> FALSE]
DiscreteIndicatorBasis ==
    [name |-> "DiscreteIndicatorBasis", fft_kwargs |-> TRUE]
Bases == {ImagFFTBasis, DiscreteIndicatorBasis}

\* Filter(Fkernel, basis)
NewFilter(Fkernel, basis) == [Fkernel |-> Fkernel, basis |-> basis]

\* _frequency_2_real()
_frequency_2_real(self) ==
    fftshift(_ifftn(self.Fkernel), basis_axes(self.Fkernel))

\* _real_2_frequency(kernel)
_real_2_frequency(kernel) ==
    _fftn(ifftshift(kernel, basis_axes(kernel)))

\* The pad widths of _zero_pad_and_transform: paddown = padsize // 2,
\* padup = padsize - paddown, each axis padded (padup, paddown).
kernel_pads(padsize) ==
    [i \in 1..Len(padsize) |->
        LET paddown == padsize[i] \div 2
            padup == padsize[i] - paddown
        IN  <<padup, paddown>>]

\* _zero_pad_and_transform(kernel, size): the padded kernel, or the
\* ValueError of np.pad, or that of np.array(size) - np.array(kernel.shape)
\* when the two have different lengths.
_zero_pad_and_transform(kernel, size) ==
    LET size2 == <<kernel.shape[1]>> \o size
                     \o <<kernel.shape[Len(kernel.shape)]>>
        padsize == [i \in 1..Len(size2) |-> size2[i] - kernel.shape[i]]
        pads == kernel_pads(padsize)
    IN  IF Len(size2) # Len(kernel.shape)
        THEN [err |-> ErrBroadcast, ret |-> None]
        ELSE IF PadRaises(pads) THEN [err |-> ErrPad, ret |-> None]
        ELSE [err |-> Ok, ret |-> pad(kernel, pads)]

\* resize(size)
resize(self, size) ==
    IF Len(size) # Len(self.Fkernel.shape) - 2
    THEN Result(self, ErrLen, None)
    ELSE IF ~TupleGE(size, ButLast(ButFirst(self.Fkernel.shape)))
    THEN Result(self, ErrSmall, None)
    ELSE
    LET kernel == _frequency_2_real(self)
        padded == _zero_pad_and_transform(kernel, size)
    IN  IF padded.err # Ok THEN Result(self, padded.err, None)
        ELSE Result([self EXCEPT !.Fkernel = _real_2_frequency(padded.ret)],
                    Ok, None)

\* FX * self._Fkernel, for two arrays with the same number of axes: numpy
\* broadcasts an axis when the two lengths are equal or one of them is 1.
Broadcasts(X, K) ==
    /\ Len(X.shape) = Len(K.shape)
    /\ \A i \in 1..Len(X.shape) :
          X.shape[i] = K.shape[i] \/ X.shape[i] = 1 \/ K.shape[i] = 1

times(X, K) ==
    LET shape == [i \in 1..Len(X.shape) |->
                    IF X.shape[i] >= K.shape[i] THEN X.shape[i]
                    ELSE K.shape[i]]
        at(a, idx) == a.val[[i \in 1..Len(idx) |->
                                IF a.shape[i] = 1 THEN 0 ELSE idx[i]]]
    IN  [shape |-> shape,
         val |-> [idx \in Indices(shape) |-> Mul(at(X, idx), at(K, idx))]]

\* Filter._sum(Fy) = np.sum(Fy, axis=-1)
_sum(Fy) ==
    LET shape == ButLast(Fy.shape)
        n == Fy.shape[Len(Fy.shape)]
    IN  [shape |-> shape,
         val |-> [idx \in Indices(shape) |->
                    SumSeq([c \in 1..n |-> Fy.val[idx \o <<c - 1>>]])]]

\* The body of convolve after its dimension check:
\* FX = basis._fftn(X, threads=3, avoid_copy=True),
\* Fy = self._sum(FX * self._Fkernel), basis._ifftn(Fy).real.
\* basis._ifftn transforms over basis._axes, the spatial axes of the kernel.
convolve_checked(self, X) ==
    IF ~self.basis.fft_kwargs THEN Result(self, ErrKeyword, None)
    ELSE IF ~Broadcasts(X, self.Fkernel)
    THEN Result(self, ErrBroadcast, None)
    ELSE Result(self, Ok,
                ifftn(_sum(times(_fftn(X), self.Fkernel)),
                      basis_axes(self.Fkernel)))

\* A convolve that compares the spatial axes only and lets an input with
\* another number of states through.
convolve_spatial_only(self, X) ==
    IF ButLast(ButFirst(X.shape)) # ButLast(ButFirst(self.Fkernel.shape))
    THEN Result(self, ErrDims, None)
    ELSE IF ButFirst(X.shape) # ButFirst(self.Fkernel.shape)
    THEN Result(self, Ok, zeros(ButLast(X.shape)))
    ELSE convolve_checked(self, X)

\* convolve(X)
convolve(self, X) ==
    IF ButFirst(X.shape) # ButFirst(self.Fkernel.shape)
    THEN Result(self, ErrDims, None)
    ELSE convolve_checked(self, X)

\* ------------------------------------------------------------- Correlation
\* A conjugate that leaves the transform as it is.
conjugate_skipped(F) == F

\* np.conjugate(Fkernel) for the transform of a real array: the conjugate
\* of the entry at frequency k is the entry at frequency -k (modulo the
\* lengths of the transformed axes).
conjugate(F) ==
    [shape |-> F.shape,
     val |-> [idx \in Indices(F.shape) |->
                F.val[[i \in 1..Len(idx) |->
                         IF i > 1 /\ i < Len(idx)
                         THEN (F.shape[i] - idx[i]) % F.shape[i]
                         ELSE idx[i]]]]]

\* Fkernel_shape=None
NoShape == <<>>

\* Correlation(kernel, basis, Fkernel_shape): the object, or the error
\* raised by the constructor.
Correlation(kernel, basis, Fkernel_shape) ==
    LET padded == IF Fkernel_shape # NoShape
                  THEN _zero_pad_and_transform(kernel, Fkernel_shape)
                  ELSE [err |-> Ok, ret |-> kernel]
    IN  IF padded.err # Ok
        THEN Result(NewFilter(None, basis), padded.err, None)
        ELSE IF ~basis.fft_kwargs
        THEN Result(NewFilter(None, basis), ErrKeyword, None)
        ELSE Result(NewFilter(conjugate(_fftn(padded.ret)), basis), Ok, None)

\* A _sum that adds the states up as Filter._sum does, the sum kept in
\* every channel.
Correlation_sum_states(Fy) ==
    [shape |-> Fy.shape,
     val |-> [idx \in Indices(Fy.shape) |-> _sum(Fy).val[ButLast(idx)]]]

\* Correlation._sum(Fy) = Fy
Correlation_sum(Fy) == Fy

\* A Correlation.convolve that leaves out the zero padding of an input whose
\* shape differs from the kernel's.
Correlation_convolve_unpadded(self, X) ==
    IF ~self.basis.fft_kwargs THEN Result(self, ErrKeyword, None)
    ELSE IF ~Broadcasts(X, self.Fkernel)
    THEN Result(self, ErrBroadcast, None)
    ELSE Result(self, Ok,
             fftshift(ifftn(Correlation_sum(times(_fftn(X), self.Fkernel)),
                            basis_axes(self.Fkernel)),
                      basis_axes(self.Fkernel)))

\* A Correlation.convolve without the final fftshift: the zero lag stays at
\* index 0.
Correlation_convolve_unshifted(self, X) ==
    LET padded == IF X.shape # self.Fkernel.shape
                  THEN _zero_pad_and_transform(X,
                           ButLast(ButFirst(self.Fkernel.shape)))
                  ELSE [err |-> Ok, ret |-> X]
    IN  IF padded.err # Ok THEN Result(self, padded.err, None)
        ELSE IF ~self.basis.fft_kwargs THEN Result(self, ErrKeyword, None)
        ELSE IF ~Broadcasts(padded.ret, self.Fkernel)
        THEN Result(self, ErrBroadcast, None)
        ELSE Result(self, Ok,
                 ifftn(Correlation_sum(
                           times(_fftn(padded.ret), self.Fkernel)),
                       basis_axes(self.Fkernel)))

\* Correlation.convolve(X)
Correlation_convolve(self, X) ==
    LET padded == IF X.shape # self.Fkernel.shape
                  THEN _zero_pad_and_transform(X,
                           ButLast(ButFirst(self.Fkernel.shape)))
                  ELSE [err |-> Ok, ret |-> X]
    IN  IF padded.err # Ok THEN Result(self, padded.err, None)
        ELSE IF ~self.basis.fft_kwargs THEN Result(self, ErrKeyword, None)
        ELSE IF ~Broadcasts(padded.ret, self.Fkernel)
        THEN Result(self, ErrBroadcast, None)
        ELSE Result(self, Ok,
                 fftshift(ifftn(Correlation_sum(
                                    times(_fftn(padded.ret), self.Fkernel)),
                                basis_axes(self.Fkernel)),
                          basis_axes(self.Fkernel)))

\* ------------------------------------------------------------------- stats
\* The correlation functions built on Correlation: autocorrelate,
\* crosscorrelate, correlate and the pair-count normalizer _normalize.
\* A function gives [err, ret].  periodic_axes is a set of spatial axes,
\* numbered from 0; confidence_index is an array of the shape of X, or None.

\* np.ones(shape)
ones(shape) == [shape |-> shape, val |-> [i \in Indices(shape) |-> 1]]

\* The discrete indicator basis: X_[..., l] = 1 where X = l, 0 elsewhere.
discretize_indicator(X) ==
    LET shape == X.shape \o <<n_states>>
    IN  [shape |-> shape,
         val |-> [idx \in Indices(shape) |->
                    IF X.val[ButLast(idx)] = idx[Len(idx)] THEN 1 ELSE 0]]

\* The mask as an array with one state: confidence_index[..., None], or
\* ones when there is no mask.
mask_array(X_, confidence_index) ==
    IF confidence_index = None THEN ones(ButLast(X_.shape) \o <<1>>)
    ELSE [shape |-> confidence_index.shape \o <<1>>,
          val |-> [idx \in Indices(confidence_index.shape \o <<1>>) |->
                     confidence_index.val[ButLast(idx)]]]

\* The masked data: X_ * confidence_index[..., None].
mask_X_(X_, confidence_index) ==
    IF confidence_index = None THEN X_
    ELSE times(X_, mask_array(X_, confidence_index))

\* A kernel shape without the doubling: every axis is treated as periodic.
_Fkernel_shape_undoubled(X_, periodic_axes) ==
    [i \in 1..(Len(X_.shape) - 2) |-> X_.shape[i + 1]]

\* The spatial shape of the kernel: the length of a periodic axis, twice
\* the length of a non-periodic one.
_Fkernel_shape(X_, periodic_axes) ==
    [i \in 1..(Len(X_.shape) - 2) |->
        IF (i - 1) \in periodic_axes THEN X_.shape[i + 1]
        ELSE 2 * X_.shape[i + 1]]

\* The window of array a (n_samples, M..., n) that has the leading shape
\* `shape` (n_samples, N...) and keeps the zero lag, index M div 2 of a, at
\* index N div 2.
truncate(a, shape) ==
    LET new == shape \o <<a.shape[Len(a.shape)]>>
        start == [i \in 1..Len(new) |->
                    IF i > 1 /\ i < Len(new)
                    THEN a.shape[i] \div 2 - new[i] \div 2 ELSE 0]
    IN  [shape |-> new,
         val |-> [idx \in Indices(new) |->
                    a.val[[i \in 1..Len(idx) |-> idx[i] + start[i]]]]]

\* A normalizer that counts every voxel pair, masked or not.
_normalize_unmasked(X_, basis, shape, confidence_index) ==
    LET mask == ones(ButLast(X_.shape) \o <<1>>)
        c == Correlation(mask, basis, shape)
        r == Correlation_convolve(c.self, mask)
    IN  IF c.err # Ok THEN [err |-> c.err, ret |-> None]
        ELSE IF r.err # Ok THEN [err |-> r.err, ret |-> None]
        ELSE [err |-> Ok, ret |-> truncate(r.ret, ButLast(X_.shape))]

\* _normalize(X_, basis, Fkernel_shape, confidence_index): the number of
\* voxel pairs at every lag, the correlation of the mask with itself.
_normalize(X_, basis, shape, confidence_index) ==
    LET mask == mask_array(X_, confidence_index)
        c == Correlation(mask, basis, shape)
        r == Correlation_convolve(c.self, mask)
    IN  IF c.err # Ok THEN [err |-> c.err, ret |-> None]
        ELSE IF r.err # Ok THEN [err |-> r.err, ret |-> None]
        ELSE [err |-> Ok, ret |-> truncate(r.ret, ButLast(X_.shape))]

\* A division that gives NaN for 0 / 0, as the division of two numpy
\* arrays does.
divide_raw(corr, norm) ==
    [shape |-> corr.shape,
     val |-> [idx \in Indices(corr.shape) |->
                LET n == norm.val[[idx EXCEPT ![Len(idx)] = 0]]
                IN  IF n = 0 THEN NaN ELSE Mul(corr.val[idx], Inv(n))]]

\* corr / norm, entry by entry, with 0 where the pair count is 0.
divide(corr, norm) ==
    [shape |-> corr.shape,
     val |-> [idx \in Indices(corr.shape) |->
                LET n == norm.val[[idx EXCEPT ![Len(idx)] = 0]]
                IN  IF n = 0 THEN 0 ELSE Mul(corr.val[idx], Inv(n))]]

\* The normalized correlation of the channels of X1_ with those of X2_.
_correlate(X1_, X2_, basis, periodic_axes, confidence_index) ==
    LET shape == _Fkernel_shape(X1_, periodic_axes)
        c == Correlation(mask_X_(X1_, confidence_index), basis, shape)
        r == Correlation_convolve(c.self, mask_X_(X2_, confidence_index))
        norm == _normalize(X1_, basis, shape, confidence_index)
    IN  IF c.err # Ok THEN [err |-> c.err, ret |-> None]
        ELSE IF r.err # Ok THEN [err |-> r.err, ret |-> None]
        ELSE IF norm.err # Ok THEN [err |-> norm.err, ret |-> None]
        ELSE [err |-> Ok,
              ret |-> divide(truncate(r.ret, ButLast(X1_.shape)), norm.ret)]

\* autocorrelate(X, basis, periodic_axes, confidence_index)
autocorrelate(X, basis, periodic_axes, confidence_index) ==
    LET X_ == discretize_indicator(X)
    IN  _correlate(X_, X_, basis, periodic_axes, confidence_index)

\* np.roll(X_, i, axis=-1): channel c holds the channel c - i of X_.
roll_states(X_, i) ==
    LET n == X_.shape[Len(X_.shape)]
    IN  [shape |-> X_.shape,
         val |-> [idx \in Indices(X_.shape) |->
                    X_.val[[idx EXCEPT ![Len(idx)] =
                               (idx[Len(idx)] + n * i - i) % n]]]]

\* The cross-correlations computed, in order: the pairs (c, c - i) of
\* zip(states, np.roll(states, i)) for i = 1 .. n_states / 2, cut after
\* n_states * (n_states - 1) / 2 pairs; states are numbered from 0.
crosscorrelation_pairs ==
    [q \in 1..((n_states * (n_states - 1)) \div 2) |->
        LET i == (q - 1) \div n_states + 1
            c == (q - 1) % n_states
        IN  <<c, (c + n_states * i - i) % n_states>>]

\* crosscorrelate(X, basis, periodic_axes, confidence_index)
crosscorrelate(X, basis, periodic_axes, confidence_index) ==
    LET X_ == discretize_indicator(X)
        per(i) == _correlate(X_, roll_states(X_, i), basis, periodic_axes,
                             confidence_index)
        n == Len(crosscorrelation_pairs)
        shape == X.shape \o <<n>>
    IN  IF per(1).err # Ok THEN [err |-> per(1).err, ret |-> None]
        ELSE [err |-> Ok,
              ret |-> [shape |-> shape,
                       val |-> [idx \in Indices(shape) |->
                          LET q == idx[Len(idx)]
                          IN  per(q \div n_states + 1).ret.val[
                                  [idx EXCEPT ![Len(idx)] =
                                      q % n_states]]]]]

\* np.concatenate((a, b), axis=-1)
concatenate(a, b) ==
    LET na == a.shape[Len(a.shape)]
        shape == [a.shape EXCEPT ![Len(a.shape)] =
                     na + b.shape[Len(b.shape)]]
    IN  [shape |-> shape,
         val |-> [idx \in Indices(shape) |->
                    IF idx[Len(idx)] < na THEN a.val[idx]
                    ELSE b.val[[idx EXCEPT ![Len(idx)] = @ - na]]]]

\* correlate(X, basis, periodic_axes, confidence_index): the
\* autocorrelations, then the cross-correlations.
correlate(X, basis, periodic_axes, confidence_index) ==
    LET auto == autocorrelate(X, basis, periodic_axes, confidence_index)
        cross == crosscorrelate(X, basis, periodic_axes, confidence_index)
    IN  IF auto.err # Ok THEN [err |-> auto.err, ret |-> None]
        ELSE IF cross.err # Ok THEN [err |-> cross.err, ret |-> None]
        ELSE [err |-> Ok, ret |-> concatenate(auto.ret, cross.ret)]

\* ------------------------------------------------------------------ inputs
\* Spatial shapes: one axis, or two axes.
SpShapes1 == {<<n>> : n \in 1..MaxLen}
SpShapes2 == {<<a, b>> : a \in 1..MaxLen, b \in 1..MaxLen}

\* The spatial shapes of the calibration and prediction data.
DataShapes == SpShapes1 \cup {<<a, b>> : a, b \in 1..(MaxLen - 1)}

\* Numbers of samples.
Samples == {1, 2}

\* A two-phase microstructure of the given shape (n_samples, spatial...):
\* sample s holds phase 1 in its first s + 1 voxels and phase 0 elsewhere.
Ramp(shape) ==
    [shape |-> shape,
     val |-> [idx \in Indices(shape) |->
                IF Rank(ButFirst(idx), ButFirst(shape)) <= idx[1]
                THEN XScale ELSE 0]]

\* The same with a NaN in the last voxel.
WithNaN(X) ==
    [shape |-> X.shape,
     val |-> [idx \in Indices(X.shape) |->
                IF \A i \in 1..Len(idx) : idx[i] = X.shape[i] - 1
                THEN NaN ELSE X.val[idx]]]

\* A response field made of the microstructure: y = X, as real numbers.
AsResponse(X) ==
    [shape |-> X.shape,
     val |-> [idx \in Indices(X.shape) |->
                Mul(X.val[idx], Inv(XScale % P))]]

\* The arguments of fit: a microstructure and a response, of the same shape
\* or not.
FitXs ==
    {Ramp(<<S>> \o sp) : S \in Samples, sp \in DataShapes}
        \cup {WithNaN(Ramp(<<1>> \o sp)) : sp \in DataShapes}

FitYs(X) ==
    {AsResponse(X),
     shift1(AsResponse(X), Len(X.shape), 1),
     zeros(ButFirst(X.shape)),
     zeros(<<X.shape[1] + 1>> \o ButFirst(X.shape))}

\* The arguments of predict.
PredictXs == {Ramp(<<S>> \o sp) : S \in Samples, sp \in DataShapes}

\* The arguments of resize_coeff and of Filter.resize.
ResizeArgs == SpShapes1 \cup SpShapes2 \cup {<<1, 1, 1>>}

\* The arguments of Filter.convolve: discretized microstructures
\* (n_samples, spatial..., n_states), and arrays with one state only.
ConvolveXs ==
    {discretize(Ramp(<<S>> \o sp)) : S \in Samples, sp \in DataShapes}
        \cup {Ramp(<<1>> \o sp \o <<1>>) : sp \in SpShapes1}

\* Spatial shapes of the data given to the correlation engine: each axis
\* has a transform at its own length and at twice its length.
CorrShapes == {sp \in DataShapes :
                 \A i \in 1..Len(sp) : 2 * sp[i] \in FFTLengths}

\* The kernels a Correlation is made of: discretized microstructures.
CorrKernels ==
    {discretize(Ramp(<<S>> \o sp)) : S \in Samples, sp \in CorrShapes}

\* The values of Fkernel_shape for a kernel of spatial shape sp: None, or
\* each axis at its length or at twice its length.
KernelShapes(sp) ==
    {NoShape} \cup
        {[i \in 1..Len(sp) |-> IF i \in A THEN sp[i] ELSE 2 * sp[i]] :
            A \in SUBSET (1..Len(sp))}

\* Largest number of voxels of a sample given to the correlation functions
\* with every microstructure of its shape.
MaxVoxels == 3

StatShapes ==
    {sp \in SpShapes1 \cup SpShapes2 :
        /\ \A i \in 1..Len(sp) : 2 * sp[i] \in FFTLengths
        /\ ProdSeq(sp) <= MaxVoxels}

\* Every array of the shape with entries 0 and 1: the microstructures of
\* two local states, and the confidence masks.
Binary(shape) ==
    {[shape |-> shape, val |-> f] : f \in [Indices(shape) -> {0, 1}]}

\* The checkerboard of 3 x 3 voxels, and the masks that leave out one voxel
\* of it (mask = np.ones(X.shape); mask[0, i, j] = 0).
Checkerboard ==
    [shape |-> <<1, 3, 3>>,
     val |-> [idx \in Indices(<<1, 3, 3>>) |-> (idx[2] + idx[3]) % 2]]

OneOut(shape) ==
    {[shape |-> shape, val |-> [idx \in Indices(shape) |->
                                  IF idx = v THEN 0 ELSE 1]] :
        v \in Indices(shape)}

\* The masks tried with an X of the given shape: none, every 0/1 mask for
\* one sample along one axis, the masks with one voxel left out otherwise.
Masks(shape) ==
    {None} \cup (IF shape[1] = 1 /\ Len(shape) = 2 THEN Binary(shape)
                 ELSE OneOut(shape))

\* The masks of the checkerboard: none, and one voxel left out, a corner
\* (mask[0, 0, 0] = 0), the middle of an edge or the centre.
CheckerboardMasks ==
    {None} \cup {m \in OneOut(Checkerboard.shape) :
                    \E v \in {<<0, 0, 0>>, <<0, 0, 1>>, <<0, 1, 1>>} :
                       m.val[v] = 0}

\* The arguments X and confidence_index of the correlation functions:
\* one sample of every shape, two samples of one axis of at most two
\* voxels, and the checkerboard.
StatInputs ==
    UNION {{<<X, m>> : X \in Binary(shape), m \in Masks(shape)} :
              shape \in {<<1>> \o sp : sp \in StatShapes}
                         \cup {<<2, n>> : n \in 1..2}}
    \cup {<<Checkerboard, m>> : m \in CheckerboardMasks}

\* The inputs without a mask, and those that differ in shape or mask only.
WithoutMask == {in \in StatInputs : in[2] = None}

\* The arguments X_ and confidence_index of _normalize: zeros with one
\* state, X_ = np.zeros((1, Nx, Ny, 1)), of every shape above.
ShapesAndMasks == {<<zeros(in[1].shape \o <<1>>), in[2]>> : in \in StatInputs}

\* The sets of periodic axes for a given X.
PeriodicAxes(X) == SUBSET (0..(Len(X.shape) - 2))

\* Real-space coefficients with a label in every entry, as in the doctest
\* of resize_coeff (np.arange(...).reshape(...)): 1 + the C-order position.
Labelled(shape) ==
    [shape |-> shape,
     val |-> [idx \in Indices(shape) |-> 1 + Rank(idx, shape)]]

\* ------------------------------------------------------------------- state
VARIABLES
    model,      \* the MKSRegressionModel object
    filt,       \* the Filter object
    last,       \* the last call on the model: the object before it, its
                \* arguments and its outcome
    flast,      \* the last call on the filter: the object before, the error
    fitDone,    \* whether a call of fit has completed
    pc          \* the caller: "idle" before a call, "returned" after one

vars == <<model, filt, last, flast, fitDone, pc>>

Call(op, pre, r, X, yshape, shape) ==
    [op |-> op, pre |-> pre, err |-> r.err, ret |-> r.ret,
     X |-> X, yshape |-> yshape, shape |-> shape]

NoCall == [op |-> "none", pre |-> NewModel, err |-> Ok, ret |-> None,
           X |-> None, yshape |-> <<>>, shape |-> <<>>]

FilterCall(op, pre, r, size) ==
    [op |-> op, pre |-> pre, err |-> r.err, size |-> size]

ConvolveCall(pre, r, X) ==
    [op |-> "convolve", pre |-> pre, err |-> r.err, ret |-> r.ret,
     X |-> X, size |-> <<>>]

NoFilterCall ==
    [op |-> "none", pre |-> NewFilter(None, ImagFFTBasis), err |-> Ok,
     size |-> <<>>]

\* A model made by MKSRegressionModel(basis), and a filter of one voxel.
Init ==
    /\ model = NewModel
    /\ filt = NewFilter(_real_2_frequency(Labelled(<<1, 1, n_states>>)),
                        ImagFFTBasis)
    /\ last = NoCall
    /\ flast = NoFilterCall
    /\ fitDone = FALSE
    /\ pc = "idle"

Fit(X, y) ==
    LET r == fit(model, X, y)
    IN  /\ pc = "idle"
        /\ pc' = "returned"
        /\ model' = r.self
        /\ last' = Call("fit", model, r, X, y.shape, <<>>) @@ [y |-> y]
        /\ fitDone' = (fitDone \/ r.err = Ok)
        /\ UNCHANGED <<filt, flast>>

Predict(X) ==
    LET r == predict(model, X)
    IN  /\ pc = "idle"
        /\ pc' = "returned"
        /\ model' = r.self
        /\ last' = Call("predict", model, r, X, <<>>, <<>>)
        /\ UNCHANGED <<filt, flast, fitDone>>

Coeff ==
    LET r == coeff(model)
    IN  /\ pc = "idle"
        /\ pc' = "returned"
        /\ model' = r.self
        /\ last' = Call("coeff", model, r, None, <<>>, <<>>)
        /\ UNCHANGED <<filt, flast, fitDone>>

ResizeCoeff(shape) ==
    LET r == resize_coeff(model, shape)
    IN  /\ pc = "idle"
        /\ pc' = "returned"
        /\ model' = r.self
        /\ last' = Call("resize_coeff", model, r, None, <<>>, shape)
        /\ UNCHANGED <<filt, flast, fitDone>>

\* The caller takes the outcome of the call and is ready for the next one.
Return ==
    /\ pc = "returned"
    /\ pc' = "idle"
    /\ last' = NoCall
    /\ flast' = NoFilterCall
    /\ UNCHANGED <<model, filt, fitDone>>

Next ==
    \/ \E X \in FitXs : \E y \in FitYs(X) : Fit(X, y)
    \/ \E X \in PredictXs : Predict(X)
    \/ Coeff
    \/ \E shape \in DataShapes \cup {<<1, 1, 1>>} : ResizeCoeff(shape)
    \/ Return

Spec == Init /\ [][Next]_vars

\* ----------------------------------------------- the resize specification
\* A model and a filter that hold the same labelled real-space data, as the
\* doctest of resize_coeff builds them (model.Fcoeff = np.fft.fftn(
\* np.fft.ifftshift(coeff))); every request is sent to both.
InitResize ==
    \E sp \in SpShapes1 \cup SpShapes2, basis \in Bases :
        /\ model = [has |-> TRUE,
                    Fcoeff |-> fftn(ifftshift(Labelled(sp \o <<n_states>>),
                                              [i \in 1..Len(sp) |-> i - 1]),
                                    [i \in 1..Len(sp) |-> i - 1])]
        /\ filt = NewFilter(_real_2_frequency(
                                Labelled(<<1>> \o sp \o <<n_states>>)),
                            basis)
        /\ last = NoCall
        /\ flast = NoFilterCall
        /\ fitDone = FALSE
        /\ pc = "idle"

Resize(size) ==
    LET r == resize_coeff(model, size)
        f == resize(filt, size)
    IN  /\ pc = "idle"
        /\ pc' = "returned"
        /\ model' = r.self
        /\ last' = Call("resize_coeff", model, r, None, <<>>, size)
        /\ filt' = f.self
        /\ flast' = FilterCall("resize", filt, f, size)
        /\ UNCHANGED fitDone

\* filt.convolve(X)
Convolve(X) ==
    LET r == convolve(filt, X)
    IN  /\ pc = "idle"
        /\ pc' = "returned"
        /\ filt' = r.self
        /\ flast' = ConvolveCall(filt, r, X)
        /\ UNCHANGED <<model, last, fitDone>>

NextResize ==
    \/ \E size \in ResizeArgs : Resize(size)
    \/ \E X \in ConvolveXs : Convolve(X)
    \/ Return

SpecResize == InitResize /\ [][NextResize]_vars

\* ------------------------------------------ the correlation specification
\* No Correlation object yet.
InitCorr ==
    /\ model = NewModel
    /\ filt = NewFilter(None, ImagFFTBasis)
    /\ last = NoCall
    /\ flast = NoFilterCall
    /\ fitDone = FALSE
    /\ pc = "start"

\* filt = Correlation(kernel, basis, Fkernel_shape)
Construct(kernel, basis, Fkernel_shape) ==
    LET r == Correlation(kernel, basis, Fkernel_shape)
    IN  /\ pc = "start"
        /\ pc' = IF r.err = Ok THEN "returned" ELSE "failed"
        /\ filt' = r.self
        /\ flast' = [op |-> "Correlation", pre |-> filt, err |-> r.err,
                     ret |-> None, X |-> kernel, size |-> Fkernel_shape]
        /\ UNCHANGED <<model, last, fitDone>>

\* filt.convolve(X) on the Correlation object
Correlate(X) ==
    LET r == Correlation_convolve(filt, X)
    IN  /\ pc = "idle"
        /\ pc' = "returned"
        /\ filt' = r.self
        /\ flast' = [op |-> "correlate", pre |-> filt, err |-> r.err,
                     ret |-> r.ret, X |-> X, size |-> <<>>]
        /\ UNCHANGED <<model, last, fitDone>>

NextCorr ==
    \/ \E kernel \in CorrKernels, basis \in Bases :
          \E fs \in KernelShapes(ButLast(ButFirst(kernel.shape))) :
              Construct(kernel, basis, fs)
    \/ \E X \in ConvolveXs : Correlate(X)
    \/ Return

SpecCorr == InitCorr /\ [][NextCorr]_vars

\* ------------------------------------------------ the stats specification
\* A call of one of the correlation functions, with its arguments and its
\* outcome.
StatCall(op, X, periodic_axes, confidence_index, r) ==
    [op |-> op, pre |-> filt, err |-> r.err, ret |-> r.ret, X |-> X,
     periodic |-> periodic_axes, mask |-> confidence_index, size |-> <<>>]

InitStats ==
    /\ model = NewModel
    /\ filt = NewFilter(None, DiscreteIndicatorBasis)
    /\ last = NoCall
    /\ flast = NoFilterCall
    /\ fitDone = FALSE
    /\ pc = "idle"

Autocorrelate(X, periodic_axes, confidence_index) ==
    /\ pc = "idle"
    /\ pc' = "returned"
    /\ flast' = StatCall("autocorrelate", X, periodic_axes, confidence_index,
                         autocorrelate(X, filt.basis, periodic_axes,
                                       confidence_index))
    /\ UNCHANGED <<model, filt, last, fitDone>>

Crosscorrelate(X, periodic_axes, confidence_index) ==
    /\ pc = "idle"
    /\ pc' = "returned"
    /\ flast' = StatCall("crosscorrelate", X, periodic_axes,
                         confidence_index,
                         crosscorrelate(X, filt.basis, periodic_axes,
                                        confidence_index))
    /\ UNCHANGED <<model, filt, last, fitDone>>

CorrelateAll(X, periodic_axes, confidence_index) ==
    /\ pc = "idle"
    /\ pc' = "returned"
    /\ flast' = StatCall("stats.correlate", X, periodic_axes, confidence_index,
                         correlate(X, filt.basis, periodic_axes,
                                   confidence_index))
    /\ UNCHANGED <<model, filt, last, fitDone>>

Normalize(X_, periodic_axes, confidence_index) ==
    /\ pc = "idle"
    /\ pc' = "returned"
    /\ flast' = StatCall("_normalize", X_, periodic_axes, confidence_index,
                         _normalize(X_, filt.basis,
                                    _Fkernel_shape(X_, periodic_axes),
                                    confidence_index))
    /\ UNCHANGED <<model, filt, last, fitDone>>

NextStats ==
    \/ \E in \in StatInputs : \E p \in PeriodicAxes(in[1]) :
          \/ Autocorrelate(in[1], p, in[2])
          \/ Crosscorrelate(in[1], p, in[2])
    \/ \E in \in WithoutMask : \E p \in PeriodicAxes(in[1]) :
          CorrelateAll(in[1], p, in[2])
    \/ \E in \in ShapesAndMasks : \E p \in SUBSET (0..(Len(in[1].shape) - 3)) :
          Normalize(in[1], p, in[2])
    \/ Return

SpecStats == InitStats /\ [][NextStats]_vars

\* ================================================================== claims
\* Spatial shape of the coefficients of a model, and of a kernel.
CoeffSpace(self) == ButLast(self.Fcoeff.shape)
KernelSpace(self) == ButLast(ButFirst(self.Fkernel.shape))

\* C1: predict on a model on which no call of fit has completed raises
\* "fit() method must be run before predict()", whatever X is, and the model
\* has no coefficients afterwards.
C1_PredictBeforeFitFails ==
    (last.op = "predict" /\ ~fitDone)
        => (last.err = ErrNotFit /\ ~model.has)

\* C2: reading coeff on a model on which no call of fit has completed raises
\* an AttributeError, the kind of error predict raises before fit, and
\* returns no data.
C2_CoeffBeforeFitFails ==
    (last.op = "coeff" /\ ~fitDone)
        => (ErrKind(last.err) = ErrKind(ErrNotFit) /\ last.ret = None)

\* C3: fit(X, y) raises a shape error whenever X.shape # y.shape or y has
\* fewer than two dimensions, and then the model is what it was before the
\* call.
C3_FitShapeError ==
    (last.op = "fit"
        /\ (last.X.shape # last.yshape \/ Len(last.yshape) < 2))
        => /\ last.err \in {ErrYShape, ErrXYShape}
           /\ model = last.pre

C3_Witness ==
    /\ last.op = "fit"
    /\ last.X.shape # last.yshape
    /\ last.err = ErrXYShape
    /\ last.pre.has
    /\ fitDone

\* C4: once fit has completed, a call of predict, failing or not, leaves the
\* model as it was, and predict with the same X on the model after the call
\* gives the result the call gave.
C4_PredictKeepsFcoeff ==
    (last.op = "predict" /\ fitDone)
        => /\ model = last.pre
           /\ predict(model, last.X).err = last.err
           /\ predict(model, last.X).ret = last.ret

C4_Witness ==
    /\ last.op = "predict"
    /\ fitDone
    /\ last.err = Ok
    /\ \E i \in DOMAIN last.ret.val : last.ret.val[i] # 0

\* C5: predict(X) on a model that has coefficients raises the dimension
\* error when X.shape[1:] differs from Fcoeff.shape[:-1]; when they are equal
\* it succeeds, for any number of samples, and returns an array of the shape
\* of X.
C5_PredictDimension ==
    (last.op = "predict" /\ last.pre.has)
        => IF ButFirst(last.X.shape) # CoeffSpace(last.pre)
           THEN last.err = ErrDim /\ last.ret = None
           ELSE last.err = Ok /\ last.ret.shape = last.X.shape

C5_Witness ==
    /\ last.op = "predict"
    /\ fitDone
    /\ last.err = Ok
    /\ last.X.shape[1] = 2
    /\ last.ret.shape = last.X.shape

\* C10: after a successful resize_coeff(new_shape) the model still has
\* coefficients, of spatial shape new_shape and with the number of states
\* it had; predict then accepts every input of spatial shape new_shape and
\* rejects every input of the old spatial shape when the two differ.
C10_ResizeThenPredict ==
    (last.op = "resize_coeff" /\ last.err = Ok)
        => /\ model.has
           /\ CoeffSpace(model) = last.shape
           /\ model.Fcoeff.shape[Len(model.Fcoeff.shape)]
                  = last.pre.Fcoeff.shape[Len(last.pre.Fcoeff.shape)]
           /\ \A X \in PredictXs :
                /\ ButFirst(X.shape) = last.shape
                      => predict(model, X).err = Ok
                /\ (ButFirst(X.shape) = CoeffSpace(last.pre)
                        /\ CoeffSpace(last.pre) # last.shape)
                      => predict(model, X).err = ErrDim

C10_Witness ==
    /\ last.op = "resize_coeff"
    /\ last.err = Ok
    /\ fitDone
    /\ CoeffSpace(last.pre) # last.shape
    /\ CoeffSpace(model) = last.shape

\* A request that has the wrong number of axes or is smaller than the
\* current spatial shape in some axis.
BadShape(size, cur) ==
    \/ Len(size) # Len(cur)
    \/ \E i \in 1..Len(cur) : size[i] < cur[i]

\* C6: resize_coeff(shape) and Filter.resize(size) raise "resize shape is too
\* small" or "length of resize shape is incorrect" whenever the request has
\* the wrong number of axes or is smaller than the current spatial shape in
\* any axis, and then the stored coefficients / kernel are unchanged.
C6_ResizeRejectsBadShape ==
    /\ (last.op = "resize_coeff" /\ last.pre.has
            /\ BadShape(last.shape, CoeffSpace(last.pre)))
          => (last.err \in {ErrLen, ErrSmall} /\ model = last.pre)
    /\ (flast.op = "resize" /\ BadShape(flast.size, KernelSpace(flast.pre)))
          => (flast.err \in {ErrLen, ErrSmall} /\ filt = flast.pre)

\* The growth of every axis of array a when its spatial axes take the
\* lengths of size; first is the number of leading axes that are kept.
Growth(a, size, first) ==
    [i \in 1..Len(a.shape) |->
        IF i > first /\ i <= first + Len(size)
        THEN size[i - first] - a.shape[i] ELSE 0]

\* Array a with, on every axis, floor(p / 2) zeros before and ceil(p / 2)
\* zeros after, where p is the growth of the axis.
ExtraZeroAfter(a, p) ==
    pad(a, [i \in 1..Len(p) |-> <<p[i] \div 2, p[i] - p[i] \div 2>>])

\* The same with ceil(p / 2) zeros before and floor(p / 2) zeros after.
ExtraZeroBefore(a, p) ==
    pad(a, [i \in 1..Len(p) |-> <<p[i] - p[i] \div 2, p[i] \div 2>>])

\* C7 as claimed: a resize that grows an axis by p puts floor(p / 2) zeros
\* before the original data and ceil(p / 2) after it.
C7_ExtraZeroAfter ==
    /\ (last.op = "resize_coeff" /\ last.err = Ok)
          => coeff_of(model.Fcoeff)
                = ExtraZeroAfter(coeff_of(last.pre.Fcoeff),
                      Growth(last.pre.Fcoeff, last.shape, 0))
    /\ (flast.op = "resize" /\ flast.err = Ok)
          => _frequency_2_real(filt)
                = ExtraZeroAfter(_frequency_2_real(flast.pre),
                      Growth(flast.pre.Fkernel, flast.size, 1))

\* C7 as amended: a resize that grows an axis by p puts ceil(p / 2) zeros
\* before the original data and floor(p / 2) after it: the two counts sum to
\* p, differ by at most 1, and the extra zero of an odd p is on the 'before'
\* (low-index) side.
C7_ExtraZeroBefore ==
    /\ (last.op = "resize_coeff" /\ last.err = Ok)
          => coeff_of(model.Fcoeff)
                = ExtraZeroBefore(coeff_of(last.pre.Fcoeff),
                      Growth(last.pre.Fcoeff, last.shape, 0))
    /\ (flast.op = "resize" /\ flast.err = Ok)
          => _frequency_2_real(filt)
                = ExtraZeroBefore(_frequency_2_real(flast.pre),
                      Growth(flast.pre.Fkernel, flast.size, 1))

\* A resize of both objects that grows an axis by an odd number of voxels.
C7_Witness ==
    /\ last.op = "resize_coeff"
    /\ last.err = Ok
    /\ flast.op = "resize"
    /\ flast.err = Ok
    /\ \E i \in 1..Len(last.shape) :
          (last.shape[i] - CoeffSpace(last.pre)[i]) % 2 = 1

\* C8: for every target shape at least as large as the current one in each
\* axis, resize_coeff succeeds and coeff then has the target shape, holds
\* the coeff of before as one contiguous block, every value unchanged, and
\* zeros everywhere else; the state axis is not padded.
C8_ResizeRoundTrip ==
    (last.op = "resize_coeff" /\ last.pre.has
        /\ ~BadShape(last.shape, CoeffSpace(last.pre)))
        => LET old == coeff_of(last.pre.Fcoeff)
               new == coeff_of(model.Fcoeff)
               p == Growth(old, last.shape, 0)
               d == Len(last.shape)
           IN  /\ last.err = Ok
               /\ new.shape = last.shape \o <<old.shape[d + 1]>>
               /\ \E before \in [1..d -> 0..MaxLen] :
                     /\ \A i \in 1..d : before[i] <= p[i]
                     /\ new = pad(old,
                                [i \in 1..(d + 1) |->
                                    IF i <= d
                                    THEN <<before[i], p[i] - before[i]>>
                                    ELSE <<0, 0>>])

C8_Witness ==
    /\ last.op = "resize_coeff"
    /\ last.err = Ok
    /\ Len(last.shape) = 2
    /\ \A i \in 1..2 : last.shape[i] > CoeffSpace(last.pre)[i]
    /\ \E i \in DOMAIN coeff_of(model.Fcoeff).val :
          coeff_of(model.Fcoeff).val[i] = 0

\* The lag of unshifted index j on an axis of length n: j below ceil(n / 2),
\* j - n from there on.
Lag(j, n) == IF j < n - n \div 2 THEN j ELSE j - n

\* Every entry of the unshifted real-space array old is found in new at the
\* index of the same lag along the axes first + 1 .. first + d.
SameLags(old, new, first, d) ==
    \A idx \in Indices(old.shape) :
        new.val[[i \in 1..Len(idx) |->
                    IF i > first /\ i <= first + d
                    THEN (Lag(idx[i], old.shape[i]) + new.shape[i])
                             % new.shape[i]
                    ELSE idx[i]]]
            = old.val[idx]

\* C9: a resize keeps the frequency content of the kernel: the real-space
\* coefficient at the origin (index 0 of the unshifted array) before the
\* resize is at the origin after it, and every coefficient keeps its lag.
C9_ResizeKeepsLags ==
    /\ (last.op = "resize_coeff" /\ last.err = Ok)
          => SameLags(ifftn(last.pre.Fcoeff, coeff_axes(last.pre.Fcoeff)),
                      ifftn(model.Fcoeff, coeff_axes(model.Fcoeff)),
                      0, Len(last.shape))
    /\ (flast.op = "resize" /\ flast.err = Ok)
          => SameLags(_ifftn(flast.pre.Fkernel), _ifftn(filt.Fkernel),
                      1, Len(flast.size))

\* C11: Filter.convolve(X) raises "Dimensions of X are incorrect." whenever
\* X.shape[1:] (spatial axes and state axis) differs from Fkernel.shape[1:],
\* and no call of convolve changes the kernel.
C11_ConvolveDimension ==
    flast.op = "convolve"
        => /\ filt = flast.pre
           /\ ButFirst(flast.X.shape) # ButFirst(flast.pre.Fkernel.shape)
                 => (flast.err = ErrDims /\ flast.ret = None)

\* A call rejected for its number of states alone.
C11_Witness ==
    /\ flast.op = "convolve"
    /\ flast.err = ErrDims
    /\ ButLast(ButFirst(flast.X.shape)) = KernelSpace(flast.pre)

\* C12 as claimed: Correlation.convolve fails on every input whose spatial
\* shape differs from the spatial shape of the kernel.
C12_MismatchIsError ==
    (flast.op = "correlate"
        /\ ButLast(ButFirst(flast.X.shape)) # KernelSpace(flast.pre))
        => flast.err # Ok

\* Every axis of a is at most the axis of b.
AllLE(a, b) == Len(a) = Len(b) /\ \A i \in 1..Len(a) : a[i] <= b[i]

\* C12 as amended: Correlation.convolve never truncates: an input that is
\* larger than the kernel in some spatial axis fails with the ValueError of
\* np.pad.  An input that is smaller in some axis and larger in none is
\* zero-padded to the spatial shape of the kernel and correlated: the call
\* succeeds (when the sample and state axes broadcast) and the result has
\* the spatial shape of the kernel.  The kernel is not changed.
C12_MismatchPadsOrFails ==
    (flast.op = "correlate"
        /\ ButLast(ButFirst(flast.X.shape)) # KernelSpace(flast.pre))
        => LET X == flast.X
               K == flast.pre.Fkernel
               sx == ButLast(ButFirst(X.shape))
               sk == KernelSpace(flast.pre)
               n == Len(X.shape)
               m == Len(K.shape)
               fits(a, b) == a = b \/ a = 1 \/ b = 1
               max(a, b) == IF a >= b THEN a ELSE b
           IN  /\ filt = flast.pre
               /\ Len(sx) # Len(sk) => flast.err = ErrBroadcast
               /\ (Len(sx) = Len(sk) /\ ~AllLE(sx, sk))
                     => (flast.err = ErrPad /\ flast.ret = None)
               /\ AllLE(sx, sk)
                     => IF fits(X.shape[1], K.shape[1])
                           /\ fits(X.shape[n], K.shape[m])
                        THEN /\ flast.err = Ok
                             /\ flast.ret.shape
                                   = <<max(X.shape[1], K.shape[1])>> \o sk
                                       \o <<max(X.shape[n], K.shape[m])>>
                        ELSE flast.err = ErrBroadcast

\* An input smaller than the kernel in an axis by more than a broadcast.
C12_Witness ==
    /\ flast.op = "correlate"
    /\ flast.err = Ok
    /\ \E i \in 1..Len(KernelSpace(flast.pre)) :
          /\ flast.X.shape[i + 1] > 1
          /\ flast.X.shape[i + 1] < KernelSpace(flast.pre)[i]

\* C13: a fit that completes has solved, at every spatial frequency index,
\* the least-squares problem of that index (the normal equations
\* A^H A x = A^H b hold for the stored slice): for all n_states states at
\* the all-zero index, and for all states but the last at every other
\* index, where the coefficient of the last state is exactly zero.
C13_FitSolvesEachFrequency ==
    (last.op = "fit" /\ last.err = Ok)
        => LET FX == _discrtizefft(last.X)
               Fy == fftn(last.y, _axes(last.X))
               S == last.X.shape[1]
               sp == ButFirst(last.X.shape)
               F == model.Fcoeff
               A(s, ijk, c) == FX.val[<<s - 1>> \o ijk \o <<c - 1>>]
               Ah(s, ijk, c) ==
                   FX.val[<<s - 1>> \o NegIndex(ijk, sp) \o <<c - 1>>]
               x(ijk, c) == F.val[ijk \o <<c - 1>>]
           IN  /\ F.shape = sp \o <<n_states>>
               /\ \A ijk \in Indices(sp) :
                    LET k == IF AllZero(ijk) THEN n_states
                             ELSE n_states - 1
                    IN  /\ \A c \in (k + 1)..n_states : x(ijk, c) = 0
                        /\ \A c1 \in 1..k :
                              SumSeq([s \in 1..S |->
                                  Mul(Ah(s, ijk, c1),
                                      SumSeq([c2 \in 1..k |->
                                          Mul(A(s, ijk, c2), x(ijk, c2))]))])
                                = SumSeq([s \in 1..S |->
                                      Mul(Ah(s, ijk, c1),
                                          Fy.val[<<s - 1>> \o ijk])])

\* A completed fit with a coefficient that is not zero at a frequency that
\* is not zero.
C13_Witness ==
    /\ last.op = "fit"
    /\ last.err = Ok
    /\ \E idx \in DOMAIN model.Fcoeff.val :
          ~AllZero(ButLast(idx)) /\ model.Fcoeff.val[idx] # 0

\* ------------------------------------------------- counting voxel pairs
\* The calls of the correlation functions, and the state pair (l, l') of
\* each channel of their results: state l at x, state l' at x + r.
StatOps == {"autocorrelate", "crosscorrelate", "stats.correlate"}

AutoPairs == [c \in 1..n_states |-> <<c - 1, c - 1>>]

ChannelPairs(op) ==
    IF op = "autocorrelate" THEN AutoPairs
    ELSE IF op = "crosscorrelate" THEN crosscorrelation_pairs
    ELSE AutoPairs \o crosscorrelation_pairs

\* The lag of an output index: the zero lag is at index n div 2 of an axis
\* of length n.
LagAt(X, idx) ==
    [i \in 1..(Len(X.shape) - 1) |-> idx[i + 1] - X.shape[i + 1] \div 2]

\* The position x + r, taken modulo the length on the periodic axes.
Shifted(X, x, r, periodic) ==
    [i \in 1..Len(x) |->
        IF (i - 1) \in periodic
        THEN (x[i] + r[i] + X.shape[i + 1]) % X.shape[i + 1]
        ELSE x[i] + r[i]]

Inside(X, x) ==
    \A i \in 1..Len(x) : x[i] >= 0 /\ x[i] < X.shape[i + 1]

Counts(mask, s, x) == mask = None \/ mask.val[<<s>> \o x] = 1

\* The positions x of sample s for which the pair (x, x + r) is counted:
\* both voxels inside the domain and unmasked.
Pairs(X, mask, s, r, periodic) ==
    {x \in Indices(ButFirst(X.shape)) :
        /\ Inside(X, Shifted(X, x, r, periodic))
        /\ Counts(mask, s, x)
        /\ Counts(mask, s, Shifted(X, x, r, periodic))}

PairCount(X, mask, s, pair, r, periodic) ==
    Cardinality({x \in Pairs(X, mask, s, r, periodic) :
                    /\ X.val[<<s>> \o x] = pair[1]
                    /\ X.val[<<s>> \o Shifted(X, x, r, periodic)] = pair[2]})

\* The fraction p / q as the model holds it, 0 for q = 0.
Fraction(p, q) == IF q = 0 THEN 0 ELSE Mul(p, Inv(q))

Statistic(X, mask, s, pair, r, periodic) ==
    Fraction(PairCount(X, mask, s, pair, r, periodic),
             Cardinality(Pairs(X, mask, s, r, periodic)))

\* The result of a correlation call is the counted statistic at every lag.
IsStatistic(call) ==
    /\ call.err = Ok
    /\ call.ret.shape = call.X.shape \o <<Len(ChannelPairs(call.op))>>
    /\ \A idx \in Indices(call.ret.shape) :
          call.ret.val[idx]
              = Statistic(call.X, call.mask, idx[1],
                          ChannelPairs(call.op)[idx[Len(idx)] + 1],
                          LagAt(call.X, idx), call.periodic)

\* C14: a non-periodic correlation without a mask gives, at every lag r of
\* the output (zero lag at index n div 2 of each axis) and for every state
\* pair (l, l'), the number of positions x with x and x + r inside the
\* domain, state l at x and state l' at x + r, divided by the number of
\* positions x with x and x + r inside the domain.
C14_NonPeriodicCorrelation ==
    (flast.op \in StatOps /\ flast.periodic = {} /\ flast.mask = None)
        => IsStatistic(flast)

\* A cross-correlation that is not zero at a lag with fewer pairs than
\* voxels.
C14_Witness ==
    /\ flast.op = "crosscorrelate"
    /\ flast.periodic = {}
    /\ flast.mask = None
    /\ flast.err = Ok
    /\ \E idx \in Indices(flast.ret.shape) :
          /\ Cardinality(Pairs(flast.X, None, idx[1],
                               LagAt(flast.X, idx), {}))
                < ProdSeq(ButFirst(flast.X.shape))
          /\ flast.ret.val[idx] # 0

\* Every spatial axis of X.
AllAxes(X) == 0..(Len(X.shape) - 2)

\* C15: when every spatial axis is periodic (and there is no mask), the
\* value for the state pair (l, l') at lag r is the number of positions x
\* with state l at x and state l' at x + r, taken modulo the axis lengths,
\* divided by the number of voxels of the sample.
C15_PeriodicCorrelation ==
    (flast.op \in StatOps /\ flast.periodic = AllAxes(flast.X)
            /\ flast.mask = None)
        => /\ flast.err = Ok
           /\ \A idx \in Indices(flast.X.shape) :
                 \A c \in 1..Len(ChannelPairs(flast.op)) :
                    flast.ret.val[idx \o <<c - 1>>]
                        = Fraction(PairCount(flast.X, None, idx[1],
                                             ChannelPairs(flast.op)[c],
                                             LagAt(flast.X, idx),
                                             AllAxes(flast.X)),
                                   ProdSeq(ButFirst(flast.X.shape)))

\* A periodic correlation that counts a pair which wraps around an axis.
C15_Witness ==
    /\ flast.op \in StatOps
    /\ flast.periodic = AllAxes(flast.X)
    /\ flast.mask = None
    /\ flast.err = Ok
    /\ \E idx \in Indices(flast.ret.shape) :
          \E x \in Indices(ButFirst(flast.X.shape)) :
             LET r == LagAt(flast.X, idx)
                 y == Shifted(flast.X, x, r, flast.periodic)
                 pair == ChannelPairs(flast.op)[idx[Len(idx)] + 1]
             IN  /\ ~Inside(flast.X, Shifted(flast.X, x, r, {}))
                 /\ flast.X.val[<<idx[1]>> \o x] = pair[1]
                 /\ flast.X.val[<<idx[1]>> \o y] = pair[2]
                 /\ flast.ret.val[idx] # 0

\* The output index of the zero lag of sample s: n div 2 on every axis.
ZeroLag(X, s) ==
    <<s>> \o [i \in 1..(Len(X.shape) - 1) |-> X.shape[i + 1] \div 2]

\* The number of voxels of sample s in state l.
VoxelsIn(X, s, l) ==
    Cardinality({x \in Indices(ButFirst(X.shape)) : X.val[<<s>> \o x] = l})

\* C16: without a mask the autocorrelation of state l at zero lag is the
\* volume fraction of state l, the number of voxels in state l divided by
\* the number of voxels, whichever axes are periodic.
C16_ZeroLagVolumeFraction ==
    (flast.op \in {"autocorrelate", "stats.correlate"} /\ flast.mask = None)
        => /\ flast.err = Ok
           /\ \A s \in 0..(flast.X.shape[1] - 1) : \A l \in 0..(n_states - 1) :
                 flast.ret.val[ZeroLag(flast.X, s) \o <<l>>]
                     = Fraction(VoxelsIn(flast.X, s, l),
                                ProdSeq(ButFirst(flast.X.shape)))

\* A non-periodic autocorrelation of a sample that holds both states.
C16_Witness ==
    /\ flast.op = "autocorrelate"
    /\ flast.mask = None
    /\ flast.periodic = {}
    /\ flast.err = Ok
    /\ \E l \in 0..(n_states - 1) :
          /\ VoxelsIn(flast.X, 0, l) > 0
          /\ VoxelsIn(flast.X, 0, l) < ProdSeq(ButFirst(flast.X.shape))
          /\ flast.ret.val[ZeroLag(flast.X, 0) \o <<l>>] # 0

\* C17: with a 0/1 mask the value at lag r is the number of voxel pairs
\* (x, x + r) with both voxels unmasked and in the required states, divided
\* by the number of voxel pairs (x, x + r) with both voxels unmasked, at
\* every lag that has such a pair, for any set of periodic axes and for
\* each sample with its own part of the mask.
C17_MaskedCorrelation ==
    (flast.op \in StatOps /\ flast.mask # None)
        => /\ flast.err = Ok
           /\ flast.ret.shape
                 = flast.X.shape \o <<Len(ChannelPairs(flast.op))>>
           /\ \A idx \in Indices(flast.ret.shape) :
                 LET r == LagAt(flast.X, idx)
                     pair == ChannelPairs(flast.op)[idx[Len(idx)] + 1]
                     unmasked == Cardinality(Pairs(flast.X, flast.mask,
                                                   idx[1], r, flast.periodic))
                     both == PairCount(flast.X, flast.mask, idx[1], pair, r,
                                       flast.periodic)
                 IN  unmasked > 0
                        => flast.ret.val[idx] = Mul(both, Inv(unmasked))

\* A correlation of two samples, one of them with a masked voxel, that is
\* not zero at a lag where the mask removes a pair.
C17_Witness ==
    /\ flast.op \in StatOps
    /\ flast.mask # None
    /\ flast.err = Ok
    /\ flast.X.shape[1] = 2
    /\ \E idx \in Indices(flast.ret.shape) :
          LET r == LagAt(flast.X, idx)
          IN  /\ Cardinality(Pairs(flast.X, flast.mask, idx[1], r,
                                   flast.periodic))
                    < Cardinality(Pairs(flast.X, None, idx[1], r,
                                        flast.periodic))
              /\ flast.ret.val[idx] # 0

\* The result of the correlation function `op`.
StatResult(op, X, basis, periodic_axes, confidence_index) ==
    IF op = "autocorrelate"
    THEN autocorrelate(X, basis, periodic_axes, confidence_index)
    ELSE IF op = "crosscorrelate"
    THEN crosscorrelate(X, basis, periodic_axes, confidence_index)
    ELSE correlate(X, basis, periodic_axes, confidence_index)

\* Some pair (x, x + r) of sample s that the unmasked computation counts
\* contains the voxel v = <<sample>> \o position.
PairContains(X, s, r, periodic, v) ==
    /\ s = v[1]
    /\ \E x \in Pairs(X, None, s, r, periodic) :
          x = ButFirst(v) \/ Shifted(X, x, r, periodic) = ButFirst(v)

\* C18: with the confidence of a single voxel v set to zero, the result
\* at every lag r for which no counted voxel pair (x, x + r) contains v is
\* the result of the unmasked computation.
C18_SingleVoxelMask ==
    (flast.op \in StatOps /\ flast.mask \in OneOut(flast.X.shape))
        => LET v == CHOOSE x \in Indices(flast.X.shape) :
                        flast.mask.val[x] = 0
               plain == StatResult(flast.op, flast.X, flast.pre.basis,
                                   flast.periodic, None)
           IN  /\ flast.err = Ok
               /\ plain.err = Ok
               /\ \A idx \in Indices(flast.ret.shape) :
                     ~PairContains(flast.X, idx[1], LagAt(flast.X, idx),
                                   flast.periodic, v)
                        => flast.ret.val[idx] = plain.ret.val[idx]

\* A voxel of the checkerboard is masked: the result keeps the unmasked
\* value at a lag of that sample with no pair on the voxel, and changes at
\* another lag.
C18_Witness ==
    /\ flast.op \in StatOps
    /\ flast.err = Ok
    /\ flast.mask \in OneOut(flast.X.shape)
    /\ LET v == CHOOSE x \in Indices(flast.X.shape) : flast.mask.val[x] = 0
           plain == StatResult(flast.op, flast.X, flast.pre.basis,
                               flast.periodic, None)
       IN  /\ \E idx \in Indices(flast.ret.shape) :
                 /\ idx[1] = v[1]
                 /\ ~PairContains(flast.X, idx[1], LagAt(flast.X, idx),
                                  flast.periodic, v)
                 /\ flast.ret.val[idx] # 0
           /\ \E idx \in Indices(flast.ret.shape) :
                 flast.ret.val[idx] # plain.ret.val[idx]

\* The number of pairs (x, x + r) along one axis of length n: n when the
\* axis is periodic, n - |r| when it is not.
AxisPairs(n, r, isPeriodic) ==
    IF isPeriodic THEN n ELSE IF r >= 0 THEN n - r ELSE n + r

\* C19: without a mask the pair-count normalizer at lag r is the product
\* over the axes of the per-axis count, the length N of a periodic axis and
\* N - |r| for a non-periodic axis; it has the shape of its input X_ and
\* holds the number of voxels at the zero lag.
C19_NormalizerIsProduct ==
    (flast.op = "_normalize" /\ flast.mask = None)
        => LET X_ == flast.X
               d == Len(X_.shape) - 2
           IN  /\ flast.err = Ok
               /\ flast.ret.shape = X_.shape
               /\ \A idx \in Indices(flast.ret.shape) :
                     flast.ret.val[idx]
                         = ProdSeq([i \in 1..d |->
                               AxisPairs(X_.shape[i + 1],
                                         idx[i + 1] - X_.shape[i + 1] \div 2,
                                         (i - 1) \in flast.periodic)]) % P
               /\ \A s \in 0..(X_.shape[1] - 1) :
                     flast.ret.val[<<s>> \o [i \in 1..d |->
                                               X_.shape[i + 1] \div 2]
                                        \o <<0>>]
                         = ProdSeq([i \in 1..d |-> X_.shape[i + 1]]) % P

\* The normalizer of 3 x 3 voxels with the first axis periodic and the
\* second not.
C19_Witness ==
    /\ flast.op = "_normalize"
    /\ flast.mask = None
    /\ flast.err = Ok
    /\ flast.X.shape = <<1, 3, 3, 1>>
    /\ flast.periodic = {0}
    /\ flast.ret.val[<<0, 0, 0, 0>>] = 6
    /\ flast.ret.val[<<0, 1, 1, 0>>] = 9

MaxStates == 9

\* np.roll(states, i) for a list: the entry at position j moves to
\* position j + i (modulo the length).
roll(states, i) ==
    LET n == Len(states)
    IN  [j \in 1..n |-> states[((j - 1 + n * i - i) % n) + 1]]

\* zip(a, b)
zip(a, b) == [j \in 1..Len(a) |-> <<a[j], b[j]>>]

\* itertools.chain.from_iterable(tmp)
RECURSIVE chain(_)
chain(tmp) == IF tmp = <<>> THEN <<>> ELSE Head(tmp) \o chain(Tail(tmp))

\* titles[:Nslice]
UpTo(titles, Nslice) ==
    SubSeq(titles, 1, IF Nslice < Len(titles) THEN Nslice ELSE Len(titles))

\* _get_autocorrelation_titles(n_states)
_get_autocorrelation_titles(n) ==
    LET states == [j \in 1..n |-> j]
    IN  zip(states, states)

\* The titles of every roll, without the cut to Nslice entries.
_get_crosscorrelation_titles_uncut(n) ==
    LET states == [j \in 1..n |-> j]
        Niter == n \div 2
    IN  chain([i \in 1..Niter |-> zip(states, roll(states, i))])

\* _get_crosscorrelation_titles(n_states): n_states / 2 and
\* n_states * (n_states - 1) / 2 are integer divisions.
_get_crosscorrelation_titles(n) ==
    LET states == [j \in 1..n |-> j]
        Niter == n \div 2
        Nslice == (n * (n - 1)) \div 2
        tmp == [i \in 1..Niter |-> zip(states, roll(states, i))]
    IN  UpTo(chain(tmp), Nslice)

\* int(0.5 + np.sqrt(1 + 8 * k) / 2.): the largest n with
\* (2 n - 1)^2 <= 1 + 8 k.
n_states_of(k) ==
    CHOOSE n \in 1..(k + 1) :
        /\ (2 * n - 1) * (2 * n - 1) <= 1 + 8 * k
        /\ (2 * n + 1) * (2 * n + 1) > 1 + 8 * k

\* _get_crosscorrelation_list(X_cross), for X_cross with k channels: the
\* labels (the titles before str is applied) and the number of channels
\* of the array handed back.
_get_crosscorrelation_list(k) ==
    [labels |-> _get_crosscorrelation_titles(n_states_of(k)),
     channels |-> k]

\* A value v of the array handed to bin stands for v / BinScale; the values
\* tried go from -1 to 2, the domain being [0, 1].
BinScale == 12

\* Largest n_bins tried.
MaxBins == 5

\* |a|
abs(a) == IF a >= 0 THEN a ELSE 0 - a

\* np.maximum(a, 0)
maximum0(a) == IF a >= 0 THEN a ELSE 0

\* A bin whose nodes are 1 / n_bins apart.
bin_row_wide(v, scale, n_bins) ==
    [h \in 1..n_bins |->
        maximum0(scale - abs(v * n_bins - (h - 1) * scale))]

\* bin(arr, n_bins) for one value v / scale of arr: the row of weights,
\* each as its numerator over scale.  With X = linspace(0, 1, n_bins) and
\* dX = X[1] - X[0] = 1 / (n_bins - 1), the weight of node h (from 0) is
\* max(1 - |v / scale - h / (n_bins - 1)| * (n_bins - 1), 0)
\*   = max(scale - |v * (n_bins - 1) - h * scale|, 0) / scale.
bin_row(v, scale, n_bins) ==
    [h \in 1..n_bins |->
        maximum0(scale - abs(v * (n_bins - 1) - (h - 1) * scale))]

\* ------------------------------------------------- the tools specification
\* last is the call made, flast the call of _get_crosscorrelation_titles
\* before it.
TitlesCall(op, n, ret) == [op |-> op, n |-> n, ret |-> ret]

InitTools ==
    /\ model = NewModel
    /\ filt = NewFilter(None, ImagFFTBasis)
    /\ last = NoCall
    /\ flast = NoFilterCall
    /\ fitDone = FALSE
    /\ pc = "idle"

\* The call of _get_crosscorrelation_titles that `last` leaves behind.
Remembered ==
    IF last.op = "_get_crosscorrelation_titles" THEN last ELSE flast

AutocorrelationTitles(n) ==
    /\ last' = TitlesCall("_get_autocorrelation_titles", n,
                          _get_autocorrelation_titles(n))
    /\ flast' = Remembered
    /\ UNCHANGED <<model, filt, fitDone, pc>>

CrosscorrelationTitles(n) ==
    /\ last' = TitlesCall("_get_crosscorrelation_titles", n,
                          _get_crosscorrelation_titles(n))
    /\ flast' = Remembered
    /\ UNCHANGED <<model, filt, fitDone, pc>>

CrosscorrelationList(k) ==
    /\ last' = TitlesCall("_get_crosscorrelation_list", k,
                          _get_crosscorrelation_list(k))
    /\ flast' = Remembered
    /\ UNCHANGED <<model, filt, fitDone, pc>>

\* The sum of a list of integers.
RECURSIVE SumInt(_)
SumInt(w) == IF w = <<>> THEN 0 ELSE Head(w) + SumInt(Tail(w))

\* bin never raises.
Bin(v, n_bins) ==
    /\ last' = [op |-> "bin", n |-> n_bins, v |-> v, err |-> Ok,
                ret |-> bin_row(v, BinScale, n_bins)]
    /\ flast' = Remembered
    /\ UNCHANGED <<model, filt, fitDone, pc>>

NextTools ==
    \/ \E v \in (0 - BinScale)..(2 * BinScale) : \E n \in 2..MaxBins :
          Bin(v, n)
    \/ \E n \in 1..MaxStates : AutocorrelationTitles(n)
    \/ \E n \in 1..MaxStates : CrosscorrelationTitles(n)
    \/ \E n \in 1..MaxStates : CrosscorrelationList((n * (n - 1)) \div 2)

SpecTools == InitTools /\ [][NextTools]_vars

\* C21: for every n_states >= 1 the list of cross-correlation titles has
\* n_states * (n_states - 1) / 2 entries, every entry (l, l') has l # l',
\* every unordered pair of distinct states appears exactly once, entry q
\* is the pair (s, s rolled by k) of the k-th roll, and a repeated call
\* gives the same list; the labels of an array of that many channels are
\* this list.
C21_CrosscorrelationTitles ==
    /\ last.op = "_get_crosscorrelation_titles"
          => LET n == last.n
                 t == last.ret
             IN  /\ Len(t) = (n * (n - 1)) \div 2
                 /\ \A q \in 1..Len(t) :
                       LET k == ((q - 1) \div n) + 1
                           s == ((q - 1) % n) + 1
                       IN  /\ t[q][1] # t[q][2]
                           /\ t[q] = <<s, ((s - 1 + n * k - k) % n) + 1>>
                 /\ \A a \in 1..n : \A b \in (a + 1)..n :
                       Cardinality({q \in 1..Len(t) :
                                       {t[q][1], t[q][2]} = {a, b}}) = 1
                 /\ (flast.op = "_get_crosscorrelation_titles"
                        /\ flast.n = n) => flast.ret = t
    /\ last.op = "_get_crosscorrelation_list"
          => /\ Len(last.ret.labels) = last.ret.channels
             /\ last.ret.labels
                   = _get_crosscorrelation_titles(n_states_of(last.n))

\* The titles of four states, [(1, 4), (2, 1), (3, 2), (4, 3), (1, 3),
\* (2, 4)], listed a second time.
C21_Witness ==
    /\ last.op = "_get_crosscorrelation_titles"
    /\ last.n = 4
    /\ last.ret = <<(<<1, 4>>), (<<2, 1>>), (<<3, 2>>), (<<4, 3>>),
                    (<<1, 3>>), (<<2, 4>>)>>
    /\ flast.op = "_get_crosscorrelation_titles"
    /\ flast.n = 4

C23_OutsideClampedOrRejected ==
    (last.op = "bin" /\ (last.v < 0 \/ last.v > BinScale))
        => (last.err # Ok \/ SumInt(last.ret) = BinScale)

\* ------------------------------------------- the recovery specification
\* The class doctest of MKSRegressionModel: a response is constructed with
\* known coefficients, the model is fitted to it, and the prediction and
\* the coefficients are compared with what went in.

\* Largest number of values (samples times voxels) of a microstructure
\* the response is constructed for.
MaxCells == 4

\* The field has non-zero vectors whose norm is zero, which the complex
\* numbers have not.  lstsq is computed from norms, so it stands for
\* numpy's only on a microstructure whose transform meets none of them:
\* at every frequency a norm is zero only when the vector is, and the Gram
\* determinant is zero only when every minor is.
Faithful(X) ==
    LET FX == _discrtizefft(X)
        S == X.shape[1]
        sp == ButFirst(X.shape)
        at(s, ijk, c) == FX.val[<<s>> \o ijk \o <<c>>]
        g(ijk, c1, c2) ==
            SumSeq([s \in 1..S |->
                Mul(at(s - 1, NegIndex(ijk, sp), c1), at(s - 1, ijk, c2))])
        det(ijk) == Add(Mul(g(ijk, 0, 0), g(ijk, 1, 1)),
                        Neg(Mul(g(ijk, 0, 1), g(ijk, 1, 0))))
    IN  \A ijk \in Indices(sp) :
            /\ \A c \in 0..(n_states - 1) :
                  g(ijk, c, c) = 0 => \A s \in 0..(S - 1) : at(s, ijk, c) = 0
            /\ Add(g(ijk, 0, 0), g(ijk, 1, 1)) = 0 =>
                  \A s \in 0..(S - 1), c \in 0..(n_states - 1) :
                      at(s, ijk, c) = 0
            /\ det(ijk) = 0 =>
                  \A s, t \in 0..(S - 1) :
                      Mul(at(s, ijk, 0), at(t, ijk, 1))
                          = Mul(at(s, ijk, 1), at(t, ijk, 0))

\* The microstructures (X = np.random.random((n_samples, n_spaces))): the
\* arrays of up to MaxCells values along one axis, each value a pure state
\* (0 or 1) or the mixture 1 / XScale.
RecoverXs ==
    LET shapes == {q \in {<<S>> \o sp : S \in Samples, sp \in SpShapes1} :
                      q[1] * q[2] <= MaxCells}
        all == UNION {[shape : {sh},
                       val : [Indices(sh) -> {0, 1, XScale}]] :
                          sh \in shapes}
    IN  {X \in all : Faithful(X)}

\* A unit impulse at position x in the filter of state l, zero elsewhere.
Impulse(shape, x, l) ==
    [shape |-> shape,
     val |-> [idx \in Indices(shape) |->
                IF idx = <<x, l>> THEN 1 ELSE 0]]

\* The generating coefficients, in real space (coeff[x, l]): the filter of
\* each state is zero or a unit impulse.
GenCoeffs(X) ==
    LET N == X.shape[2]
        shape == <<N, n_states>>
        taps == {N} \cup (0..(N - 1))
    IN  {[shape |-> shape,
          val |-> [idx \in Indices(shape) |->
                     IF idx[1] = t[idx[2] + 1] THEN 1 ELSE 0]] :
            t \in [1..n_states -> taps]}

\* Fcoeff = np.fft.fft(coeff, axis=0)
GenFcoeff(c) == fftn(c, [i \in 1..(Len(c.shape) - 1) |-> i - 1])

\* FX = fft(X_), Fy = np.sum(Fcoeff[None] * FX, axis=-1),
\* y = np.fft.ifft(Fy).real
Response(X, c) ==
    predict_response([has |-> TRUE, Fcoeff |-> GenFcoeff(c)], X)

InitRecover ==
    /\ model = NewModel
    /\ filt = NewFilter(None, ImagFFTBasis)
    /\ last = NoCall
    /\ flast = NoFilterCall
    /\ fitDone = FALSE
    /\ pc = "idle"

Generate(X, c) ==
    /\ pc = "idle"
    /\ pc' = "generated"
    /\ flast' = [op |-> "generate", X |-> X, coeff |-> c,
                 y |-> Response(X, c)]
    /\ UNCHANGED <<model, filt, last, fitDone>>

FitGenerated ==
    LET r == fit(model, flast.X, flast.y)
    IN  /\ pc = "generated"
        /\ pc' = "fitted"
        /\ model' = r.self
        /\ last' = Call("fit", model, r, flast.X, flast.y.shape, <<>>)
        /\ fitDone' = (fitDone \/ r.err = Ok)
        /\ UNCHANGED <<filt, flast>>

PredictGenerated ==
    LET r == predict(model, flast.X)
    IN  /\ pc = "fitted"
        /\ pc' = "predicted"
        /\ model' = r.self
        /\ last' = Call("predict", model, r, flast.X, <<>>, <<>>)
        /\ UNCHANGED <<filt, flast, fitDone>>

ReadCoeff ==
    LET r == coeff(model)
    IN  /\ pc = "predicted"
        /\ pc' = "read"
        /\ last' = Call("coeff", model, r, None, <<>>, <<>>)
        /\ UNCHANGED <<model, filt, flast, fitDone>>

NextRecover ==
    \/ \E X \in RecoverXs : \E c \in GenCoeffs(X) : Generate(X, c)
    \/ FitGenerated
    \/ PredictGenerated
    \/ ReadCoeff

SpecRecover == InitRecover /\ [][NextRecover]_vars

\* np.fft.fftshift(coeff, axes=(0,)): the generating coefficients shifted
\* to the centre of the array.
Centred(c) == fftshift(c, [i \in 1..(Len(c.shape) - 1) |-> i - 1])

\* The generating coefficient of the last state is the same at every
\* position (in the doctest it is zero: np.linspace(1, 0, n_states)).
LastStateConstant(c) ==
    \A idx \in Indices(c.shape) :
        idx[Len(idx)] = n_states - 1 =>
            c.val[idx] = c.val[[i \in 1..Len(idx) |->
                                  IF i = Len(idx) THEN idx[i] ELSE 0]]

\* At every frequency the transforms of the states that can be told apart
\* there (every state at the all-zero index, every state but the last at
\* any other) are linearly independent across the samples: the one column
\* is not zero, or the two columns have a non-zero minor.
Determined(X) ==
    LET FX == _discrtizefft(X)
        S == X.shape[1]
        at(s, ijk, c) == FX.val[<<s>> \o ijk \o <<c>>]
    IN  \A ijk \in Indices(ButFirst(X.shape)) :
            IF ~AllZero(ijk)
            THEN \E s \in 0..(S - 1) : at(s, ijk, 0) # 0
            ELSE \E s, t \in 0..(S - 1) :
                    Mul(at(s, ijk, 0), at(t, ijk, 1))
                        # Mul(at(s, ijk, 1), at(t, ijk, 0))

\* C24 as stated: when y is generated from X by a linear combination of
\* spatial shifts of the discretized states of X, predict(X) after
\* fit(X, y) reproduces y, and the fitted real-space coefficients are the
\* generating coefficients shifted to the centre of the array.
C24_Recoverable ==
    /\ pc = "predicted" => (last.err = Ok /\ last.ret = flast.y)
    /\ pc = "read" => (last.err = Ok /\ last.ret = Centred(flast.coeff))

\* C24 (amended): when y is generated from X by a linear combination of
\* spatial shifts of the discretized states of X, predict(X) after
\* fit(X, y) reproduces y; the fitted real-space coefficients are the
\* generating coefficients shifted to the centre of the array when, in
\* addition, the generating coefficient of the last state is the same at
\* every position and the samples determine the coefficients at every
\* frequency.
C24_RecoverableWhenDetermined ==
    /\ pc = "predicted" => (last.err = Ok /\ last.ret = flast.y)
    /\ (pc = "read" /\ LastStateConstant(flast.coeff)
                    /\ Determined(flast.X))
           => (last.err = Ok /\ last.ret = Centred(flast.coeff))

\* Two samples of two voxels that determine the coefficients, a generating
\* coefficient of the first state that differs between the two positions,
\* and the coefficients read back after fit and predict.
C24_Witness ==
    /\ pc = "read"
    /\ flast.X.shape = <<2, 2>>
    /\ Determined(flast.X)
    /\ LastStateConstant(flast.coeff)
    /\ flast.coeff.val[<<0, 0>>] # flast.coeff.val[<<1, 0>>]
    /\ last.ret = Centred(flast.coeff)
    /\ last.ret # flast.coeff

\* ------------------------------------- the autocorrelation specification
\* The doctest of Correlation: a Correlation made of a discretized
\* microstructure is applied to the same discretized microstructure.

\* The microstructure of the doctest: a stripe of state 1 between two of
\* state 0.
Stripe ==
    [shape |-> <<1, 3, 3>>,
     val |-> [idx \in Indices(<<1, 3, 3>>) |-> IF idx[3] = 1 THEN 1 ELSE 0]]

\* The microstructures: every one of two states for one or two samples
\* along one axis and for one sample along two axes, and the stripe.
AutoXs ==
    UNION {Binary(<<S>> \o sp) : S \in Samples, sp \in SpShapes1}
    \cup UNION {Binary(<<1, a, b>>) : a, b \in 1..(MaxLen - 1)}
    \cup {Stripe}

InitAuto ==
    /\ model = NewModel
    /\ filt = NewFilter(None, DiscreteIndicatorBasis)
    /\ last = NoCall
    /\ flast = NoFilterCall
    /\ fitDone = FALSE
    /\ pc = "start"

\* X_ = basis.discretize(X); filter_ = Correlation(X_, basis)
MakeCorrelation(X) ==
    LET X_ == discretize_indicator(X)
        r == Correlation(X_, filt.basis, NoShape)
    IN  /\ pc = "start"
        /\ pc' = IF r.err = Ok THEN "made" ELSE "failed"
        /\ filt' = r.self
        /\ flast' = [op |-> "Correlation", pre |-> filt, err |-> r.err,
                     ret |-> None, X |-> X, size |-> NoShape]
        /\ UNCHANGED <<model, last, fitDone>>

\* X_auto = filter_.convolve(X_)
ConvolveSame ==
    LET r == Correlation_convolve(filt, discretize_indicator(flast.X))
    IN  /\ pc = "made"
        /\ pc' = "done"
        /\ filt' = r.self
        /\ flast' = [op |-> "autoconvolve", pre |-> filt, err |-> r.err,
                     ret |-> r.ret, X |-> flast.X, size |-> NoShape]
        /\ UNCHANGED <<model, last, fitDone>>

NextAuto ==
    \/ \E X \in AutoXs : MakeCorrelation(X)
    \/ ConvolveSame

SpecAuto == InitAuto /\ [][NextAuto]_vars

\* C25: Correlation(X_, basis).convolve(X_) without Fkernel_shape gives,
\* for every sample and state channel, the unnormalized circular
\* autocorrelation: the entry at index n div 2 + r is the number of
\* positions x with the state at both x and x + r, modulo the axis lengths;
\* the channels are not summed, and the centre entry of a channel is the
\* number of voxels in that state.
C25_CircularAutocorrelation ==
    flast.op = "autoconvolve" =>
        /\ flast.err = Ok
        /\ flast.ret.shape = flast.X.shape \o <<n_states>>
        /\ \A idx \in Indices(flast.ret.shape) :
              LET l == idx[Len(idx)]
              IN  flast.ret.val[idx]
                      = PairCount(flast.X, None, idx[1], <<l, l>>,
                                  LagAt(flast.X, idx), AllAxes(flast.X))
        /\ \A s \in 0..(flast.X.shape[1] - 1), l \in 0..(n_states - 1) :
              flast.ret.val[ZeroLag(flast.X, s) \o <<l>>]
                  = VoxelsIn(flast.X, s, l)

\* The stripe of the doctest: 6, 3, 3 voxel pairs of state 0 and 3, 0, 0 of
\* state 1 along the second axis, the same in every row.
C25_Witness ==
    /\ flast.op = "autoconvolve"
    /\ flast.X = Stripe
    /\ flast.err = Ok
    /\ \A i \in 0..2 :
          /\ flast.ret.val[<<0, i, 0, 0>>] = 3
          /\ flast.ret.val[<<0, i, 1, 0>>] = 6
          /\ flast.ret.val[<<0, i, 2, 0>>] = 3
          /\ flast.ret.val[<<0, i, 0, 1>>] = 0
          /\ flast.ret.val[<<0, i, 1, 1>>] = 3
          /\ flast.ret.val[<<0, i, 2, 1>>] = 0

\* The axes lo .. hi, in order.
AxesFromTo(lo, hi) == [i \in 1..(hi - lo + 1) |-> lo + i - 1]

\* The spatial axes of an array (n_samples, spatial..., n_states), of an
\* array (n_samples, spatial...) and of an array (spatial..., n_states).
SpatialOfDiscretized(shape) == AxesFromTo(1, Len(shape) - 2)
SpatialOfResponse(shape) == AxesFromTo(1, Len(shape) - 1)
SpatialOfCoeff(shape) == AxesFromTo(0, Len(shape) - 2)

\* The prediction computed with transforms over the spatial axes.
SpatialPrediction(Fcoeff, X) ==
    LET X_ == discretize(X)
        FX == fftn(X_, SpatialOfDiscretized(X_.shape))
        Fy == [shape |-> X.shape,
               val |-> [idx \in Indices(X.shape) |->
                          SumSeq([c \in 1..n_states |->
                              Mul(FX.val[idx \o <<c - 1>>],
                                  Fcoeff.val[ButFirst(idx) \o <<c - 1>>])])]]
    IN  ifftn(Fy, SpatialOfResponse(X.shape))

\* C26: every Fourier transform of the regression model is over exactly
\* the spatial axes: fit and predict transform the axes 1 .. d of X_ and of
\* y (never the sample axis 0, never the state axis), coeff and
\* coeffToFcoeff (which resize_coeff calls) transform the axes 0 .. d - 1
\* of the coefficient array (never the state axis).
C26_SpatialAxesOnly ==
    /\ (last.op = "fit" /\ last.err = Ok)
          => /\ _axes(last.X) = SpatialOfDiscretized(discretize(last.X).shape)
             /\ _axes(last.X) = SpatialOfResponse(last.yshape)
    /\ (last.op = "predict" /\ last.err = Ok)
          => /\ _axes(last.X) = SpatialOfDiscretized(discretize(last.X).shape)
             /\ _axes(last.X) = SpatialOfResponse(last.ret.shape)
             /\ last.ret = SpatialPrediction(last.pre.Fcoeff, last.X)
    /\ (last.op \in {"coeff", "resize_coeff"} /\ last.err = Ok)
          => coeff_axes(last.pre.Fcoeff)
                 = SpatialOfCoeff(last.pre.Fcoeff.shape)
    /\ (last.op = "coeff" /\ last.err = Ok)
          => last.ret
                 = fftshift(ifftn(last.pre.Fcoeff,
                                  SpatialOfCoeff(last.pre.Fcoeff.shape)),
                            SpatialOfCoeff(last.pre.Fcoeff.shape))
    /\ (last.op = "resize_coeff" /\ last.err = Ok)
          => coeff_axes(model.Fcoeff) = SpatialOfCoeff(model.Fcoeff.shape)

\* A prediction for two samples on two spatial axes: the transforms run
\* over the axes 1 and 2.
C26_Witness ==
    /\ last.op = "predict"
    /\ last.err = Ok
    /\ last.X.shape[1] = 2
    /\ _axes(last.X) = <<1, 2>>
    /\ last.ret = SpatialPrediction(last.pre.Fcoeff, last.X)
    /\ last.ret # zeros(last.X.shape)

\* The centred real-space data of a model and of a filter with one kernel
\* are the same: coeff[x, l] = kernel[0, x, l] at every x and l.
SameCentredData(self, f) ==
    LET c == coeff_of(self.Fcoeff)
        k == _frequency_2_real(f)
    IN  /\ k.shape = <<1>> \o c.shape
        /\ \A idx \in Indices(c.shape) : c.val[idx] = k.val[<<0>> \o idx]

\* C27: resize_coeff and Filter.resize are the same padding algorithm: on
\* the same centred data and the same target shape both accept or both
\* reject, with the same error; when they accept, the data of before are at
\* the same offsets in both enlarged arrays, and neither the leading axis of
\* the kernel nor the state axis of either array is padded.
C27_SamePadding ==
    (last.op = "resize_coeff" /\ flast.op = "resize"
        /\ last.shape = flast.size
        /\ SameCentredData(last.pre, flast.pre))
        => /\ last.err = flast.err
           /\ SameCentredData(model, filt)
           /\ last.err = Ok =>
                 /\ coeff_of(model.Fcoeff).shape
                       = last.shape
                           \o <<last.pre.Fcoeff.shape[
                                   Len(last.pre.Fcoeff.shape)]>>
                 /\ _frequency_2_real(filt).shape
                       = <<flast.pre.Fkernel.shape[1]>> \o flast.size
                           \o <<flast.pre.Fkernel.shape[
                                   Len(flast.pre.Fkernel.shape)]>>
                 /\ \E off \in [1..Len(last.shape) -> 0..MaxLen] :
                       LET old == coeff_of(last.pre.Fcoeff)
                           new == coeff_of(model.Fcoeff)
                           oldk == _frequency_2_real(flast.pre)
                           newk == _frequency_2_real(filt)
                           moved(idx, first) ==
                               [i \in 1..Len(idx) |->
                                   IF i > first /\ i <= first + Len(off)
                                   THEN idx[i] + off[i - first]
                                   ELSE idx[i]]
                       IN  /\ \A i \in 1..Len(off) :
                                 off[i] + old.shape[i] <= new.shape[i]
                           /\ \A idx \in Indices(old.shape) :
                                 new.val[moved(idx, 0)] = old.val[idx]
                           /\ \A idx \in Indices(oldk.shape) :
                                 newk.val[moved(idx, 1)] = oldk.val[idx]

\* Both objects accept a request that grows one axis by an odd and another
\* by an even number of voxels, and a request that both reject.
C27_Witness ==
    /\ last.op = "resize_coeff"
    /\ flast.op = "resize"
    /\ SameCentredData(last.pre, flast.pre)
    /\ last.err = Ok
    /\ flast.err = Ok
    /\ Len(last.shape) = 2
    /\ (last.shape[1] - CoeffSpace(last.pre)[1]) % 2 = 1
    /\ last.shape[2] - CoeffSpace(last.pre)[2] = 2
    /\ SameCentredData(model, filt)

\* C28: fit is all-or-nothing: a call of fit either completes, with the
\* model holding coefficients for every frequency index, or fails and
\* leaves the model as it was before the call; a failed fit never leaves
\* zero or partly filled coefficients for predict or coeff to use.
C28_FitAllOrNothing ==
    last.op = "fit" =>
        IF last.err = Ok
        THEN /\ model.has
             /\ model.Fcoeff.shape = ButFirst(last.X.shape) \o <<n_states>>
        ELSE /\ model = last.pre
             /\ ~last.pre.has => (predict(model, last.X).err = ErrNotFit
                                    /\ coeff(model).err = ErrNoAttr)

\* The shapes b with a <= b <= c on every axis.
Between(a, c) ==
    {b \in [1..Len(a) -> 1..(MaxLen + 1)] :
        \A i \in 1..Len(a) : a[i] <= b[i] /\ b[i] <= c[i]}

\* C29: resizing is path independent: for shapes a <= b <= c on every
\* axis, resizing from a to b and then to c gives the real-space array that
\* resizing from a to c gives, the data of before at the same offsets; a
\* resize to the current shape leaves the coefficients as they are.
C29_PathIndependent ==
    /\ (last.op = "resize_coeff" /\ last.err = Ok)
          => /\ \A b \in Between(CoeffSpace(last.pre), last.shape) :
                   LET via == resize_coeff(last.pre, b)
                       then == resize_coeff(via.self, last.shape)
                   IN  /\ via.err = Ok
                       /\ then.err = Ok
                       /\ coeff_of(then.self.Fcoeff) = coeff_of(model.Fcoeff)
             /\ last.shape = CoeffSpace(last.pre) => model = last.pre
    /\ (flast.op = "resize" /\ flast.err = Ok)
          => /\ \A b \in Between(KernelSpace(flast.pre), flast.size) :
                   LET via == resize(flast.pre, b)
                       then == resize(via.self, flast.size)
                   IN  /\ via.err = Ok
                       /\ then.err = Ok
                       /\ _frequency_2_real(then.self)
                             = _frequency_2_real(filt)
             /\ flast.size = KernelSpace(flast.pre) => filt = flast.pre

\* The output index of the lag -r for the output index idx of the lag r:
\* each spatial index is mirrored at the zero lag n div 2.
Mirror(X, idx) ==
    [i \in 1..Len(idx) |->
        IF i > 1 /\ i <= Len(X.shape)
        THEN 2 * (X.shape[i] \div 2) - idx[i] ELSE idx[i]]

\* The lag -r is in the output (on an axis of even length the lag
\* -(n div 2) has no counterpart).
BothLags(X, idx) ==
    \A i \in 2..Len(X.shape) : Mirror(X, idx)[i] < X.shape[i]

\* The correlations of the state pairs (c, c + i), channel c: those of the
\* pairs of crosscorrelate with the two states exchanged.
Reversed(call, i) ==
    LET X_ == discretize_indicator(call.X)
    IN  _correlate(X_, roll_states(X_, n_states - i), filt.basis,
                   call.periodic, call.mask)

\* C30: for every sample and state l the autocorrelation at lag r equals
\* the autocorrelation at lag -r whenever both lags are in the output, and
\* the cross-correlation of (l, l') at lag r equals the cross-correlation
\* of (l', l) at lag -r, with periodic and with non-periodic axes.
C30_LagSymmetry ==
    /\ (flast.op \in {"autocorrelate", "stats.correlate"}
            /\ flast.err = Ok)
          => \A idx \in Indices(flast.ret.shape) :
                (idx[Len(idx)] < n_states /\ BothLags(flast.X, idx))
                    => flast.ret.val[idx]
                          = flast.ret.val[Mirror(flast.X, idx)]
    /\ (flast.op \in {"crosscorrelate", "stats.correlate"}
            /\ flast.err = Ok)
          => LET first == IF flast.op = "crosscorrelate" THEN 0
                          ELSE n_states
             IN  \A idx \in Indices(flast.ret.shape) :
                    (idx[Len(idx)] >= first /\ BothLags(flast.X, idx))
                        => LET q == idx[Len(idx)] - first
                               pair == crosscorrelation_pairs[q + 1]
                               rev == Reversed(flast, q \div n_states + 1)
                           IN  /\ rev.err = Ok
                               /\ flast.ret.val[idx]
                                     = rev.ret.val[
                                         [Mirror(flast.X, idx)
                                             EXCEPT ![Len(idx)] = pair[2]]]

\* A non-periodic cross-correlation of a sample of three voxels that is
\* not the same at the lags 1 and -1, and is at lag 1 what the correlation
\* of the exchanged states is at lag -1.
C30_Witness ==
    /\ flast.op = "crosscorrelate"
    /\ flast.err = Ok
    /\ flast.periodic = {}
    /\ flast.X.shape = <<1, 3>>
    /\ flast.ret.val[<<0, 2, 0>>] # flast.ret.val[<<0, 0, 0>>]
    /\ flast.ret.val[<<0, 2, 0>>] # 0
    /\ flast.ret.val[<<0, 2, 0>>]
          = Reversed(flast, 1).ret.val[<<0, 0, 1>>]
====
